---- MODULE Spec2Model ----
(***************************************************************************)
(* State-machine model of kaspernj/system-testing.                         *)
(*                                                                         *)
(*   - SystemTestCommunicator (src/system-test-communicator.js): the      *)
(*     command/response channel with its outbound queue and its table of   *)
(*     pending responses.                                                  *)
(*   - SystemTest (src/system-test.js): the runner that owns one           *)
(*     communicator, accepts the Page Helper's socket, and is started,     *)
(*     stopped and reinitialized; its element lookups all(), find() and    *)
(*     findNoWait() against the page under test.                           *)
(*                                                                         *)
(* The model follows the runner side: the Page Helper is the environment,  *)
(* which connects, closes its socket and sends arbitrary envelopes.        *)
(* JavaScript runs to completion between awaits, so every action is the    *)
(* synchronous stretch of a handler between two awaits.                    *)
(***************************************************************************)
EXTENDS Integers, Sequences, FiniteSets, TLC

\* ---------------------------------------------------------------- bounds
MaxCommands == 2      \* sendCommand calls on one communicator instance
MaxInbound == 2       \* envelopes received by onMessage
MaxHandlers == 1      \* inbound commands handed to the command handler
MaxConnections == 1   \* sockets accepted by a listening server that start() opened
MaxReinits == 1       \* reinitialize() calls
MaxHelperCommands == 2 \* commands the Page Helper's onCommand is called with

\* ------------------------------------------------------------ JS values
Undefined == "undefined"
Null == 0

\* JavaScript truthiness of the values a payload field can hold.
Truthy(v) == v \notin {Undefined, ""}

\* obj.key of a parsed object: a missing key reads as undefined.
Get(obj, key) == IF key \in DOMAIN obj THEN obj[key] ELSE Undefined

\* WebSocket.readyState
OPEN == 1
CLOSING == 2
CLOSED == 3

ResultValues == {Undefined, "r1"}
ErrorValues == {Undefined, "", "boom"}

VARIABLES
  \* SystemTestCommunicator (the runner's current instance)
  _responses,        \* id -> the promise registered under that id
  _sendQueue,        \* envelopes not yet handed to ws.send
  _sendQueueCount,   \* next command id
  communicatorWs,    \* communicator.ws: Null or a connection
  \* SystemTest
  ws,                \* SystemTest.ws: Null or a connection
  pc,                \* position of the lifecycle call in progress
  reinitializing,    \* TRUE while reinitialize() is running
  _started,
  _baseSelector,
  driver,            \* "undefined" | "active" | "quit"
  clientWss,         \* "undefined" | "listening" | "errored" | "closed"
  waitHandles,       \* waitForClientWebSocketPromiseResolve/Reject are set
  reinits,           \* reinitialize() calls so far
  \* environment
  readyState,        \* readyState of every accepted connection
  handling,          \* ids of inbound commands whose handler is pending
  \* observations
  promises,          \* the promises sendCommand returned: state and value
  abandoned,         \* promises left pending on a replaced communicator
  assigned,          \* ids handed out by sendCommand, in order
  enqueued,          \* every envelope pushed on _sendQueue, in order
  sent,              \* every string handed to ws.send, in order
  handled,           \* settled handler invocations, in order
  received,          \* onMessage calls so far
  lastMessage,       \* the envelope the last step passed to onMessage, if any
  raised,            \* error raised by the last step, or "none"
  flushed,           \* number of strings the last step handed to ws.send
  \* SystemTest: timeouts and the element lookup in progress
  _timeouts,         \* the configured timeout, in ms
  _driverTimeouts,   \* the implicit wait set on the driver, in ms
  dom,               \* the page: state of every element the selector names
  call,              \* the find/findNoWait call in progress or just finished
  fpc,               \* its position: "idle" | "lookup" | "filter" | "done"
  elapsed,           \* ms the lookup has waited
  elements,          \* what findElements returned
  stale,             \* returned elements that have left the page since
  probed,            \* returned elements whose isDisplayed() has settled
  activeElements,    \* the elements all() kept so far
  findResult,        \* what the call returned or threw
  \* SystemTest: the click/interact call in progress
  op,                \* the operation, its target and its method
  ipc,               \* its position: "idle" | "resolve" | "invoke" | "backoff" | "done"
  tries,             \* the local `tries`
  resolved,          \* outcome of every lookup _findElement made, in order
  invocations,       \* calls of the native action so far
  history,           \* outcome of every settled call of the native action, in order
  iresult,           \* what the operation returned or threw
  \* SystemTest: the waitForNoSelector call in progress
  wcall,             \* its arguments and its actualSelector
  wpc,               \* its position: "idle" | "poll" | "probe" | "done"
  welements,         \* what the condition's findElements returned
  wdom,              \* the page as that findElements saw it
  wstale,            \* returned elements that have left the page since
  welapsed,          \* ms since driver.wait was called
  polls,             \* calls of the condition so far
  wresult,           \* what the call returned or threw
  \* SystemTest.run: the call in progress
  rpc,               \* its position: "idle" | "initialize" | "dismissTo" | "find" |
                     \*   "callback" | "screenshot" | "done"
  rsent,             \* the promises of the commands it sent, in order
  rlog,              \* what it has done so far, in order
  rerror,            \* the step that failed and the error it failed with
  rresult,           \* what the call returned or threw
  \* SystemTest: commands of the Page Helper
  _onCommandCallback,    \* a callback is registered with onCommand()
  command,               \* the command onCommandReceived was last called with
  dispatch,              \* what onCommandReceived did with it
  \* SystemTestBrowserHelper (the Page Helper)
  _hasInitialized,
  _onFirstInitializeCallback,   \* a callback is registered
  _onInitializeCallback,        \* a callback is registered
  listeners,             \* the events of `events` that have a listener
  hcommands,             \* the commands onCommand was called with, in order
  firstCalls,            \* calls of the onFirstInitialize callback so far
  scoundrelClient,       \* the Page Helper's evaluation client is attached
  \* SystemTest: the evaluation server and the getScoundrelClient calls
  sclients,              \* server.getClients(): the attached clients, in order
  scalls,                \* the getScoundrelClient calls, in order
  sclock,                \* ms since construction
  \* SystemTestHttpServer: the server and the assertReachable call
  httpServer,            \* "none" | "listening"
  hpc,                   \* position of the call: "idle" | "request" | "backoff" | "done"
  attempt,               \* the loop variable `attempt`
  hlog,                  \* how every request of the call ended, in order
  hresult,               \* what the call returned or threw
  \* SystemTest: what the constructor stored
  config,                \* _host, _port, _httpHost, _httpPort, _debug, _errorFilter,
                         \*   _urlArgs and _rootPath
  \* AppiumDriver: the allByAccessibilityId call in progress
  apc,                   \* its position: "idle" | "loop" | "single" | "wait" | "done"
  acall,                 \* its actualTimeout
  aelapsed,              \* Date.now() - startTime
  aretried,              \* the loop has taken its `continue`
  aresult                \* what the call returned or threw

commVars == <<_responses, _sendQueue, _sendQueueCount, communicatorWs>>
obsVars == <<promises, abandoned, assigned, enqueued, sent, handled, received>>
stepVars == <<lastMessage, raised, flushed>>
lifeVars == <<ws, pc, reinitializing, _started, _baseSelector, driver,
              clientWss, waitHandles, reinits>>
timeVars == <<_timeouts, _driverTimeouts>>
findVars == <<dom, call, fpc, elapsed, elements, stale, probed, activeElements, findResult>>
actVars == <<op, ipc, tries, resolved, invocations, history, iresult>>
waitVars == <<wcall, wpc, welements, wdom, wstale, welapsed, polls, wresult>>
runVars == <<rpc, rsent, rlog, rerror, rresult>>
dispatchVars == <<_onCommandCallback, command, dispatch>>
helperVars == <<_hasInitialized, _onFirstInitializeCallback, _onInitializeCallback, listeners,
                hcommands, firstCalls, scoundrelClient>>
scoundrelVars == <<sclients, scalls, sclock>>
healthVars == <<httpServer, hpc, attempt, hlog, hresult>>
configVars == <<config>>
accessVars == <<apc, acall, aelapsed, aretried, aresult>>
extVars == <<scoundrelVars, healthVars, configVars, accessVars>>
vars == <<commVars, lifeVars, readyState, handling, obsVars, stepVars, timeVars, findVars,
          actVars, waitVars, runVars, dispatchVars, helperVars, extVars>>

\* ------------------------------------------------- SystemTestCommunicator

\* JSON.stringify(data): keys whose value is undefined are left out.
DropUndefined(obj) == [k \in {key \in DOMAIN obj : obj[key] # Undefined} |-> obj[k]]

JSONStringify(envelope) == [envelope EXCEPT !.data = DropUndefined(@)]

\* this.ws && this.ws.readyState === 1
SocketOpen(socket) == socket # Null /\ readyState[socket] = OPEN

\* Variant: the queue is drained from its newest end.
RECURSIVE flushSendQueueLifo(_, _, _)
flushSendQueueLifo(queue, open, out) ==
  IF queue = <<>>
    THEN [queue |-> queue, out |-> out, error |-> "none"]
    ELSE IF ~open
      THEN [queue |-> SubSeq(queue, 1, Len(queue) - 1), out |-> out,
            error |-> "WebSocket is not open"]
      ELSE flushSendQueueLifo(SubSeq(queue, 1, Len(queue) - 1), open,
                              Append(out, JSONStringify(queue[Len(queue)])))

\* flushSendQueue(): shift, then check the socket, then ws.send.
RECURSIVE flushSendQueue(_, _, _)
flushSendQueue(queue, open, out) ==
  IF queue = <<>>
    THEN [queue |-> queue, out |-> out, error |-> "none"]
    ELSE IF ~open
      THEN [queue |-> Tail(queue), out |-> out, error |-> "WebSocket is not open"]
      ELSE flushSendQueue(Tail(queue), open, Append(out, JSONStringify(Head(queue))))

\* Variant: send flushes whatever the state of the socket.
sendAlwaysFlush(queue, data, open) ==
  LET r == flushSendQueue(Append(queue, data), open, <<>>)
  IN [queue |-> r.queue, out |-> r.out, error |-> r.error, pushed |-> <<data>>]

\* send(data): push, and flush when the socket is open.
send(queue, data, open) ==
  LET r == IF open
             THEN flushSendQueue(Append(queue, data), open, <<>>)
             ELSE [queue |-> Append(queue, data), out |-> <<>>, error |-> "none"]
  IN [queue |-> r.queue, out |-> r.out, error |-> r.error, pushed |-> <<data>>]

\* The strings of one flush as entries of the transmission log.
Transmitted(out, socket) == [i \in 1..Len(out) |-> [conn |-> socket, json |-> out[i]]]

\* Variant: the counter is not advanced.
sendCommandNextCountStuck(count) == count

\* sendCommand(data): the id of the new command and the next counter.
sendCommandId(count) == count
sendCommandNextCount(count) == count + 1

CommandEnvelope(id, data) == [type |-> "command", id |-> id, data |-> data]

\* respond(id, data)
respond(id, data) == [type |-> "response", id |-> id, data |-> data]

\* Variant: the isTrusted flag is not looked at.
onMessageBranchNoTrust(data) ==
  IF data.type = "command" THEN "command"
  ELSE IF data.type = "response" THEN "response"
  ELSE "unknown"

\* Variant: an envelope of another type is dropped like a trusted one.
onMessageBranchLenient(data) ==
  IF "isTrusted" \in DOMAIN data /\ data.isTrusted THEN "ignore"
  ELSE IF data.type = "command" THEN "command"
  ELSE IF data.type = "response" THEN "response"
  ELSE "ignore"

\* The branch onMessage takes for a parsed envelope.
onMessageBranch(data) ==
  IF "isTrusted" \in DOMAIN data /\ data.isTrusted THEN "ignore"
  ELSE IF data.type = "command" THEN "command"
  ELSE IF data.type = "response" THEN "response"
  ELSE "unknown"

\* The payload onMessage answers a command with, by the handler's outcome.
handlerResponse(outcome) ==
  IF outcome.kind = "returned" THEN [result |-> outcome.value]
  ELSE [error |-> outcome.value]   \* Error: its message; otherwise the value

\* Promises are numbered from 1; NoEntry stands for the undefined of a missing key.
NoEntry == 0
\* Variant: an unknown id falls back to some pending entry.
lookupResponseAny(responses, id) ==
  IF id \in DOMAIN responses THEN responses[id]
  ELSE IF DOMAIN responses # {} THEN responses[CHOOSE k \in DOMAIN responses : TRUE]
  ELSE NoEntry

\* Variant: responses are matched first-in first-out instead of by id.
lookupResponseOldest(responses, id) ==
  IF id \in DOMAIN responses
    THEN responses[CHOOSE k \in DOMAIN responses : \A j \in DOMAIN responses : k <= j]
    ELSE NoEntry

\* The entry of the pending table a response with this id settles.
lookupResponse(responses, id) == IF id \in DOMAIN responses THEN responses[id] ELSE NoEntry

\* How a response payload settles its promise.
settle(payload) ==
  IF Truthy(Get(payload, "error"))
    THEN [state |-> "rejected", value |-> Get(payload, "error")]
    ELSE [state |-> "resolved", value |-> Get(payload, "result")]

Pending == [state |-> "pending", value |-> Undefined]

\* Variant: a failure of the handler is not caught.
onCommandSettledPropagates(queue, id, outcome, open) ==
  IF outcome.kind = "returned"
    THEN send(queue, respond(id, handlerResponse(outcome)), open)
    ELSE [queue |-> queue, out |-> <<>>, error |-> "handler failed", pushed |-> <<>>]

\* What onMessage does once the command handler has settled (try/catch).
onCommandSettled(queue, id, outcome, open) ==
  send(queue, respond(id, handlerResponse(outcome)), open)

\* A table with one more entry / one entry less.
WithEntry(table, key, value) ==
  [k \in DOMAIN table \cup {key} |-> IF k = key THEN value ELSE table[k]]
WithoutEntry(table, key) == [k \in DOMAIN table \ {key} |-> table[k]]

\* ------------------------------------------------------------ inputs
CommandData == [type |-> "cmd"]
NoMessage == [type |-> "none"]

\* A step that is not an onMessage call and raises nothing.
Quiet == lastMessage' = NoMessage /\ raised' = "none" /\ flushed' = 0

ResponsePayloads == {[result |-> "r1"], [error |-> "boom"], [error |-> ""]}

TrustedMessages ==
  [isTrusted : {TRUE}, type : {"command", "response", "other"}, id : {0},
   data : {[result |-> "r1"]}]
CommandMessages == [type : {"command"}, id : 0..1, data : {CommandData}]
ResponseMessages == [type : {"response"}, id : 0..MaxCommands, data : ResponsePayloads]
OtherMessages == [type : {"other"}, id : {0}, data : {CommandData}]
InboundMessages == TrustedMessages \cup CommandMessages \cup ResponseMessages \cup OtherMessages

\* The handler returns a value, throws an Error (value: its message) or
\* throws something else (value: what was thrown).
HandlerOutcomes ==
  [kind : {"returned"}, value : {"r1"}]
    \cup [kind : {"threwError"}, value : {"boom"}]
    \cup [kind : {"threwOther"}, value : {Undefined}]

RootScope == "[data-testid='systemTestingComponent'][data-focussed='true']"

\* ---------------------------------------------------------------------
\* Element lookup: all(), find(), findNoWait() and the timeouts
\* ---------------------------------------------------------------------
MaxElements == 2      \* elements of the page that the caller's selector names

DefaultDriverTimeouts == 5000
DefaultTimeouts == 5000
StartTimeouts == 10000

Elements == 1..MaxElements

\* The selector every modelled call passes, and a scope no element is in.
Selector == "#item"
OtherScope == "#other"

\* An element that `Selector` names is on the page or not, and displayed
\* or not.  Every such element lies inside the RootScope element, and none
\* inside an OtherScope element.
Absent == [present |-> FALSE, displayed |-> FALSE]
ElementStates == {Absent} \cup [present : {TRUE}, displayed : BOOLEAN]

\* getBaseSelector() ? `${getBaseSelector()} ${selector}` : selector
getSelector(baseSelector, selector) ==
  IF Truthy(baseSelector) THEN baseSelector \o " " \o selector ELSE selector

\* findElements(By.css(css)) on page d: the elements named, in document order.
RECURSIVE findElementsFrom(_, _, _)
findElementsFrom(d, css, e) ==
  IF e > MaxElements THEN <<>>
  ELSE LET named == /\ d[e].present
                    /\ css \in {Selector, RootScope \o " " \o Selector}
       IN (IF named THEN <<e>> ELSE <<>>) \o findElementsFrom(d, css, e + 1)

findElements(d, css) == findElementsFrom(d, css, 1)

\* The arguments of a call.  Every key is optional: `given` holds the keys
\* the caller passed, and a key not passed has no value of its own (the
\* field then holds a fixed filler that nothing reads).
VisibleValues == {"true", "false", "null"}
TimeoutValues == {0, DefaultTimeouts}
FindArgs ==
  {a \in [given : SUBSET {"visible", "timeout", "useBaseSelector"},
          visible : VisibleValues, timeout : TimeoutValues, useBaseSelector : BOOLEAN] :
     /\ "visible" \notin a.given => a.visible = "null"
     /\ "timeout" \notin a.given => a.timeout = 0
     /\ "useBaseSelector" \notin a.given => a.useBaseSelector = FALSE}
NoArgs == [given |-> {}, visible |-> "null", timeout |-> 0, useBaseSelector |-> FALSE]

\* const {visible = true, timeout, useBaseSelector = true} = args
argVisible(args) == IF "visible" \in args.given THEN args.visible ELSE "true"
argUseBaseSelector(args) ==
  IF "useBaseSelector" \in args.given THEN args.useBaseSelector ELSE TRUE

\* all(): timeout === undefined ? this._driverTimeouts : timeout
actualTimeout(args, driverTimeouts) ==
  IF "timeout" \in args.given THEN args.timeout ELSE driverTimeouts

\* all(): useBaseSelector ? this.getSelector(selector) : selector
actualSelector(args, baseSelector, selector) ==
  IF argUseBaseSelector(args) THEN getSelector(baseSelector, selector) ELSE selector

\* all(): the visibility filter on one element.
keepAll(visible, isDisplayed) == TRUE

keep(visible, isDisplayed) ==
  IF visible \in {"true", "false"}
    THEN ~(visible = "true" /\ ~isDisplayed) /\ ~(visible = "false" /\ isDisplayed)
    ELSE TRUE

\* (ms / 1000).toFixed(2), in hundredths of a second.
toFixed2(ms) == (ms + 5) \div 10

\* What a call returned or threw.  `text` is the fixed part of the message,
\* `count`, `hundredths`, `ms`, `allSelector` and `selector` the parts it
\* interpolates (0 and "" where the message has no such part).
NoOutcome ==
  [kind |-> "none", text |-> "", count |-> 0, hundredths |-> 0, ms |-> 0,
   allSelector |-> "", selector |-> "", element |-> 0]
NoCall == [args |-> NoArgs, noWait |-> FALSE, looked |-> FALSE,
           actualTimeout |-> 0, actualSelector |-> ""]

Returned(element) == [NoOutcome EXCEPT !.kind = "element", !.element = element]

\* find(): after all() returned `found`.
findFirstOfMany(found, timeouts, scoped) ==
  IF found = <<>>
    THEN [NoOutcome EXCEPT !.kind = "ElementNotFoundError",
                           !.text = "Element couldn't be found after",
                           !.hundredths = toFixed2(timeouts), !.selector = scoped]
    ELSE Returned(found[1])

find(found, timeouts, scoped) ==
  IF Len(found) > 1
    THEN [NoOutcome EXCEPT !.kind = "Error", !.text = "More than 1 elements",
                           !.count = Len(found), !.selector = scoped]
  ELSE IF found = <<>>
    THEN [NoOutcome EXCEPT !.kind = "ElementNotFoundError",
                           !.text = "Element couldn't be found after",
                           !.hundredths = toFixed2(timeouts), !.selector = scoped]
  ELSE Returned(found[1])

\* find(): all() threw because driver.wait timed out.
findWaitTimedOut(waited, css, scoped) ==
  [NoOutcome EXCEPT !.kind = "Error",
                    !.text = "Couldn't get elements with selector: Wait timed out after",
                    !.ms = waited, !.allSelector = css, !.selector = scoped]

\* find(): isDisplayed() threw on an element that left the page.
findStale(scoped) ==
  [NoOutcome EXCEPT !.kind = "Error", !.text = "stale element reference",
                    !.selector = scoped]

\* find(): getDriver() threw inside all().
findNoDriver(css, scoped) ==
  [NoOutcome EXCEPT !.kind = "Error",
                    !.text = "Couldn't get elements with selector: Driver hasn't been initialized yet",
                    !.allSelector = css, !.selector = scoped]

\* findNoWait(): getDriver() threw inside driverSetTimeouts(0), before the try.
findNoWaitNoDriver ==
  [NoOutcome EXCEPT !.kind = "Error", !.text = "Driver hasn't been initialized yet"]

\* find(): findElements threw `name` inside all(), which wrapped it.
BackendFailures == {"TimeoutError", "StaleElementReferenceError", "WebDriverError"}
findLookupFailed(name, css, scoped) ==
  [NoOutcome EXCEPT !.kind = "Error",
                    !.text = "Couldn't get elements with selector: " \o name,
                    !.allSelector = css, !.selector = scoped]

\* findNoWait(): `finally { await this.restoreTimeouts() }` replaces the
\* outcome of find() when restoreTimeouts() throws.
findNoWaitOutcome(result, timeouts) ==
  IF timeouts = 0
    THEN [NoOutcome EXCEPT !.kind = "Error",
                           !.text = "Timeouts haven't previously been set"]
    ELSE result

\* The implicit wait of the driver after the call settled.
restoredDriverTimeoutsKept(noWait, timeouts, driverTimeouts) == driverTimeouts

restoredDriverTimeouts(noWait, timeouts, driverTimeouts) ==
  IF noWait /\ timeouts # 0 THEN timeouts ELSE driverTimeouts

\* ---------------------------------------------------------------------
\* click() and interact()
\* ---------------------------------------------------------------------

\* error.constructor.name of the Errors a native action throws: the three
\* interactable-state failures and any other driver error.
NotInteractable == "ElementNotInteractableError"
ClickIntercepted == "ElementClickInterceptedError"
StaleReference == "StaleElementReferenceError"
ErrorNames == {NotInteractable, ClickIntercepted, StaleReference, "WebDriverError"}

\* A native action returns a value, throws an Error (name: its constructor
\* name) or throws something that is no Error (name: its typeof).
InvokeOutcomes ==
  [kind : {"returned"}, name : {"ok"}]
    \cup [kind : {"threwError"}, name : ErrorNames]
    \cup [kind : {"threwOther"}, name : {"string"}]

\* What find() gives _findElement: an element, or one of its errors
\* (error.constructor.name).
ResolveOutcomes == {"element", "ElementNotFoundError", "Error"}

\* The callers' targets and methods: a CSS selector or an element handle;
\* a method of the element, a name it has not, a property that is no function.
Targets == {"selector", "element"}
Methods == {"click", "missing", "notAFunction"}

NoOp == [name |-> "none", target |-> "none", method |-> "none"]
NoResult ==
  [kind |-> "none", value |-> "", text |-> "", subject |-> "", method |-> "",
   cause |-> "", tries |-> 0]

\* `if (tries >= 3)` of both loops.
MaxTries == 3
triesExhaustedLate(n) == n >= MaxTries + 1

triesExhausted(n) == n >= MaxTries

\* interact(): the errors it retries.
interactRetriesNoStale(name) == name \in {NotInteractable, ClickIntercepted}

interactRetriesAnyError(name) == TRUE

interactRetries(name) == name \in {NotInteractable, ClickIntercepted, StaleReference}

\* click(): the error it retries.
clickRetries(name) == name = NotInteractable

retries(operation, name) ==
  IF operation = "click" THEN clickRetries(name) ELSE interactRetries(name)

\* interact(): elementDescription of the error after the last try.
elementDescription(target) ==
  IF target = "selector" THEN "CSS selector " \o Selector ELSE "WebElement"

\* constructor.name of what the message puts first: the element for
\* interact(), `elementOrIdentifier` for click().
constructorName(operation, target) ==
  IF operation = "click"
    THEN "Element " \o (IF target = "selector" THEN "String" ELSE "WebElement")
    ELSE "WebElement"

Value(v) == [NoResult EXCEPT !.kind = "value", !.value = v]

\* "<subject> <method> failed after <tries> tries - <cause>: ..."
failedAfter(operation, target, method, n, cause) ==
  [NoResult EXCEPT !.kind = "Error", !.text = "failed after",
                   !.subject = IF operation = "click"
                                 THEN constructorName(operation, target)
                                 ELSE elementDescription(target),
                   !.method = method, !.cause = cause, !.tries = n]

\* "<subject> <method> failed - <cause>: ..."
failed(operation, target, method, cause) ==
  [NoResult EXCEPT !.kind = "Error", !.text = "failed",
                   !.subject = constructorName(operation, target),
                   !.method = method, !.cause = cause]

\* interact(): the checks on element[methodName] before the call.
methodCheck(method) ==
  IF method = "missing"
    THEN [NoResult EXCEPT !.kind = "Error", !.text = "hasn't an attribute named",
                          !.subject = "WebElement", !.method = method]
  ELSE IF method = "notAFunction"
    THEN [NoResult EXCEPT !.kind = "Error", !.text = "is not a function",
                          !.subject = "WebElement", !.method = method]
  ELSE NoResult

\* An error of find() as interact() lets it through.
resolveError(cause) == [NoResult EXCEPT !.kind = cause, !.text = "find", !.cause = cause]

\* The catch block of either loop on what the native action threw:
\* "retry", or the error to throw.
onActionError(operation, target, method, n, outcome) ==
  IF outcome.kind = "threwError"
    THEN IF retries(operation, outcome.name)
           THEN IF triesExhausted(n)
                  THEN failedAfter(operation, target, method, n, outcome.name)
                  ELSE [NoResult EXCEPT !.kind = "retry"]
           ELSE failed(operation, target, method, outcome.name)
    ELSE failed(operation, target, method, outcome.name)

\* ------------------------------------------------- waitForNoSelector

MaxPolls == 2         \* calls of the wait condition before the timeout has passed

\* waitForNoSelector(selector, args): `args` has no default, and every key
\* but useBaseSelector is refused.
WaitArgKeys == {"useBaseSelector", "timeout"}
WaitArgs ==
  {a \in [passed : BOOLEAN, given : SUBSET WaitArgKeys, useBaseSelector : BOOLEAN] :
     /\ ~a.passed => a.given = {}
     /\ "useBaseSelector" \notin a.given => ~a.useBaseSelector}

NoWaitArgs == [passed |-> FALSE, given |-> {}, useBaseSelector |-> FALSE]
NoWait == [args |-> NoWaitArgs, actualSelector |-> ""]
NoWaitResult == [kind |-> "none", text |-> "", cause |-> "", during |-> ""]
WaitDone == [NoWaitResult EXCEPT !.kind = "returned"]

\* `const {useBaseSelector, ...restArgs} = args` and the check of restArgs.
waitArgsError(args) ==
  IF ~args.passed
    THEN [kind |-> "TypeError", text |-> "Cannot destructure", cause |-> "TypeError",
          during |-> "args"]
    ELSE IF args.given \ {"useBaseSelector"} # {}
      THEN [kind |-> "Error", text |-> "Unexpected args: timeout", cause |-> "Error",
            during |-> "args"]
      ELSE NoWaitResult

\* const actualSelector = useBaseSelector ? this.getSelector(selector) : selector
waitActualSelector(args, baseSelector, selector) ==
  IF args.useBaseSelector THEN getSelector(baseSelector, selector) ELSE selector

\* getDriver() threw: not a WebDriverError, rethrown as it is.
waitNoDriver ==
  [kind |-> "Error", text |-> "Driver hasn't been initialized yet", cause |-> "Error",
   during |-> "driver"]

\* _withRethrownErrors: a WebDriverError `name` that driver.wait rejected
\* with, thrown while the condition was at `during`.
_withRethrownErrors(name, during) ==
  [kind |-> "Error", text |-> "Selenium " \o name \o ": ", cause |-> name, during |-> during]

\* The value of the wait condition once isDisplayed() of elements[0] settled.
waitCondition(isDisplayed) == ~isDisplayed

\* ------------------------------------------------- SystemTest.run

\* The commands of run(): sendCommand({type: "initialize"}) and, in
\* dismissTo(rootPath), sendCommand({type: "dismissTo", path}).
RootPath == "/blank?systemTest=true"
InitializeCommand == [type |-> "initialize"]
DismissToCommand == [type |-> "dismissTo", path |-> RootPath]

NoError == [step |-> "none", error |-> Undefined]
NoRunResult == [kind |-> "none", error |-> Undefined]
RunReturned == [kind |-> "returned", error |-> Undefined]
RunThrew(error) == [kind |-> "threw", error |-> error]

\* Variant: run() goes on when a command was answered, whatever the answer.
runProceedsAnyway(promise) == promise.state # "pending"

\* `await sendCommand(...)`: run() goes on when the promise is resolved and
\* throws what it was rejected with.
runProceeds(promise) == promise.state = "resolved"

\* What findByTestID("blankText", {useBaseSelector: false}) can end with,
\* the callback, and takeScreenshot().
MarkerOutcomes == {"found", "ElementNotFoundError", "Error"}
CallbackOutcomes == {"returned", "callback error"}
ScreenshotOutcomes == {"saved", "screenshot error"}

\* ------------------------------------------------- onCommandReceived

\* The types of the commands the Page Helper sends, two of them types of
\* the application; the message extractErrorMessage() finds in the data;
\* what the errorFilter says of the data, where one is set.
BuiltInTypes == {"console.error", "console.log", "error", "unhandledrejection"}
CommandTypes == BuiltInTypes \cup {"query", "custom"}
ReactNoise == {"Minified React error #418", "Minified React error #419"}
Messages == {Undefined, "boom", "Minified React error #418"}
FilterVerdicts == {"no filter", "false", "true"}

NoCommand ==
  [type |-> "none", message |-> Undefined, verdict |-> "no filter", registered |-> FALSE,
   outcome |-> [kind |-> "returned", value |-> Undefined]]
NoDispatch ==
  [route |-> "none", logged |-> FALSE, invoked |-> FALSE,
   outcome |-> [kind |-> "returned", value |-> Undefined]]

\* shouldIgnoreError(data)
shouldIgnoreError(message, verdict) ==
  IF message \in ReactNoise THEN TRUE ELSE verdict = "false"

ReturnsUndefined == [kind |-> "returned", value |-> Undefined]

\* Variant: a registered callback gets every command.
onCommandReceivedCallbackFirst(type, message, verdict, registered, outcome) ==
  IF registered
    THEN [route |-> "callback", logged |-> FALSE, invoked |-> TRUE, outcome |-> outcome]
    ELSE [route |-> "unknown", logged |-> TRUE, invoked |-> FALSE,
          outcome |-> ReturnsUndefined]

\* onCommandReceived({data}): the branch taken, whether something is
\* written to the console, whether the callback is invoked, and what the
\* handler returns or throws; `outcome` is what the callback ends with.
onCommandReceived(type, message, verdict, registered, outcome) ==
  IF type = "console.error"
    THEN [route |-> "console.error", logged |-> ~shouldIgnoreError(message, verdict),
          invoked |-> FALSE, outcome |-> ReturnsUndefined]
    ELSE IF type = "console.log"
      THEN [route |-> "console.log", logged |-> TRUE, invoked |-> FALSE,
            outcome |-> ReturnsUndefined]
      ELSE IF type = "error" \/ type = "unhandledrejection"
        THEN [route |-> "handleError", logged |-> ~shouldIgnoreError(message, verdict),
              invoked |-> FALSE, outcome |-> ReturnsUndefined]
        ELSE IF registered
          THEN [route |-> "callback", logged |-> FALSE, invoked |-> TRUE,
                outcome |-> outcome]
          ELSE [route |-> "unknown", logged |-> TRUE, invoked |-> FALSE,
                outcome |-> ReturnsUndefined]

\* ------------------------------------------------- start, stop, reinitialize

\* Variant: the wait resolves whether or not a connection is there.
waitForClientWebSocketUnchecked(socket) == "start_connected"

\* Variant: the wait looks only at connection events still to come.
waitForClientWebSocketNextOnly(socket) == "start_waiting"

\* waitForClientWebSocket(): resolved at once when this.ws is set, pending
\* otherwise; the position start() is at after calling it.
waitForClientWebSocket(socket) ==
  IF socket # Null THEN "start_connected" ELSE "start_waiting"

\* isStarted()
isStarted(started) == started

\* getDriver(): throws while this.driver is unset, hands it out otherwise.
NoDriver == "Driver hasn't been initialized yet"
getDriver(d) == IF d = "undefined" THEN NoDriver ELSE d

\* Variant: reinitialize() leaves the started flag as stop() left it.
resetStartedKept(started) == started

\* reinitialize(): `this._started = false` after stop() returned.
resetStarted(started) == FALSE

\* ------------------------------------------------------------ constructor

EmptyArgs == [key \in {} |-> Undefined]
NoUrlArgs == [given |-> FALSE, params |-> <<>>]
UrlArgs(params) == [given |-> TRUE, params |-> params]
\* Arguments a test suite constructs its SystemTest with.
SystemTestArgs ==
  {EmptyArgs,
   [host |-> "0.0.0.0", port |-> 8082, debug |-> TRUE],
   [httpHost |-> "127.0.0.1", httpPort |-> 1985, errorFilter |-> "errorFilter",
    urlArgs |-> UrlArgs(<<<<"locale", "da">>, <<"theme", Undefined>>>>)]}

\* A destructured argument with its default value.
Arg(args, key, default) == IF key \in DOMAIN args THEN args[key] ELSE default

RECURSIVE appendParams(_, _)
\* url.searchParams.append for every entry whose value is not undefined or null.
appendParams(search, params) ==
  IF params = <<>> THEN search
  ELSE LET key == Head(params)[1]
           value == Head(params)[2]
       IN appendParams(IF value = Undefined THEN search
                       ELSE search \o "&" \o key \o "=" \o value,
                       Tail(params))

buildRootPath(urlArgs) ==
  IF ~urlArgs.given THEN "/blank?systemTest=true"
  ELSE appendParams("/blank?systemTest=true", urlArgs.params)

\* The fields the constructor stores.
constructor(args) ==
  [host |-> Arg(args, "host", "localhost"),
   port |-> Arg(args, "port", 8081),
   httpHost |-> Arg(args, "httpHost", "localhost"),
   httpPort |-> Arg(args, "httpPort", 1984),
   debug |-> Arg(args, "debug", FALSE),
   errorFilter |-> Arg(args, "errorFilter", Undefined),
   urlArgs |-> Arg(args, "urlArgs", NoUrlArgs),
   rootPath |-> buildRootPath(Arg(args, "urlArgs", NoUrlArgs))]

\* Variant: reinitialize() leaves the scope as it is.
resetBaseSelectorKept(baseSelector) == baseSelector

\* reinitialize(): `this._baseSelector = undefined`
resetBaseSelector(baseSelector) == Undefined

\* ------------------------------------------------------------ initial state
\* The state after `new SystemTest(args)`.
Constructed(args) ==
  /\ config = constructor(args)
  /\ _responses = <<>>
  /\ _sendQueue = <<>>
  /\ _sendQueueCount = 0
  /\ communicatorWs = Null
  /\ ws = Null
  /\ pc = "constructed"
  /\ reinitializing = FALSE
  /\ _started = FALSE
  /\ _baseSelector = Undefined
  /\ driver = "undefined"
  /\ clientWss = "undefined"
  /\ waitHandles = FALSE
  /\ reinits = 0
  /\ readyState = <<>>
  /\ handling = <<>>
  /\ promises = <<>>
  /\ abandoned = 0
  /\ assigned = <<>>
  /\ enqueued = <<>>
  /\ sent = <<>>
  /\ handled = <<>>
  /\ received = 0
  /\ lastMessage = NoMessage
  /\ raised = "none"
  /\ flushed = 0
  /\ _timeouts = DefaultTimeouts
  /\ _driverTimeouts = DefaultDriverTimeouts
  /\ dom = [e \in Elements |-> Absent]
  /\ call = NoCall
  /\ fpc = "idle"
  /\ elapsed = 0
  /\ elements = <<>>
  /\ stale = {}
  /\ probed = 0
  /\ activeElements = <<>>
  /\ findResult = NoOutcome
  /\ op = NoOp
  /\ ipc = "idle"
  /\ tries = 0
  /\ resolved = <<>>
  /\ invocations = 0
  /\ history = <<>>
  /\ iresult = NoResult
  /\ wcall = NoWait
  /\ wpc = "idle"
  /\ welements = <<>>
  /\ wdom = dom
  /\ wstale = {}
  /\ welapsed = 0
  /\ polls = 0
  /\ wresult = NoWaitResult
  /\ rpc = "idle"
  /\ rsent = <<>>
  /\ rlog = <<>>
  /\ rerror = NoError
  /\ rresult = NoRunResult
  /\ _onCommandCallback = FALSE
  /\ command = NoCommand
  /\ dispatch = NoDispatch
  /\ _hasInitialized = FALSE
  /\ _onFirstInitializeCallback = FALSE
  /\ _onInitializeCallback = FALSE
  /\ listeners = {}
  /\ hcommands = <<>>
  /\ firstCalls = 0
  /\ scoundrelClient = FALSE
  /\ sclients = <<>>
  /\ scalls = <<>>
  /\ sclock = 0
  /\ httpServer = "none"
  /\ hpc = "idle"
  /\ attempt = 0
  /\ hlog = <<>>
  /\ hresult = [kind |-> "none"]
  /\ apc = "idle"
  /\ acall = [actualTimeout |-> 0, called |-> FALSE]
  /\ aelapsed = 0
  /\ aretried = FALSE
  /\ aresult = [kind |-> "none", text |-> ""]

Init == Constructed(EmptyArgs)
\* The state after construction with any of the arguments.
InitAnyArgs == \E args \in SystemTestArgs : Constructed(args)

\* ------------------------------------------------- communicator actions

\* sendCommand(data) on the current communicator.
SendCommand ==
  /\ _sendQueueCount < MaxCommands
  /\ LET id == sendCommandId(_sendQueueCount)
         envelope == CommandEnvelope(id, CommandData)
         r == send(_sendQueue, envelope, SocketOpen(communicatorWs))
     IN /\ _sendQueueCount' = sendCommandNextCount(_sendQueueCount)
        /\ promises' = Append(promises, Pending)
        /\ _responses' = WithEntry(_responses, id, Len(promises) + 1)
        /\ assigned' = Append(assigned, id)
        /\ _sendQueue' = r.queue
        /\ enqueued' = enqueued \o r.pushed
        /\ sent' = sent \o Transmitted(r.out, communicatorWs)
        /\ raised' = r.error
        /\ flushed' = Len(r.out)
  /\ lastMessage' = NoMessage
  /\ UNCHANGED <<timeVars, findVars, actVars, waitVars, runVars, dispatchVars, helperVars, extVars, communicatorWs, lifeVars, readyState, handling, abandoned,
                 handled, received>>

\* A message event is delivered by a connection that is open.
CanReceive == received < MaxInbound /\ \E c \in DOMAIN readyState : readyState[c] = OPEN

\* onMessage(rawData), isTrusted branch.
OnMessageIgnored ==
  \E data \in InboundMessages :
    /\ CanReceive
    /\ onMessageBranch(data) = "ignore"
    /\ received' = received + 1
    /\ lastMessage' = data
    /\ flushed' = 0
    /\ raised' = "none"
    /\ UNCHANGED <<timeVars, findVars, actVars, waitVars, runVars, dispatchVars, helperVars, extVars, commVars, lifeVars, readyState, handling, promises, abandoned,
                   assigned, enqueued, sent, handled>>

\* onMessage(rawData), command branch up to `await this.onCommand(...)`.
OnMessageCommand ==
  \E data \in InboundMessages :
    /\ CanReceive
    /\ onMessageBranch(data) = "command"
    /\ Len(handling) + Len(handled) < MaxHandlers
    /\ handling' = Append(handling, data.id)
    /\ received' = received + 1
    /\ lastMessage' = data
    /\ flushed' = 0
    /\ raised' = "none"
    /\ UNCHANGED <<timeVars, findVars, actVars, waitVars, runVars, dispatchVars, helperVars, extVars, commVars, lifeVars, readyState, promises, abandoned,
                   assigned, enqueued, sent, handled>>

\* onMessage, command branch after the handler returned or threw.
HandlerSettles ==
  \E i \in DOMAIN handling, outcome \in HandlerOutcomes :
    LET id == handling[i]
        r == onCommandSettled(_sendQueue, id, outcome, SocketOpen(communicatorWs))
    IN /\ handling' = SubSeq(handling, 1, i - 1) \o SubSeq(handling, i + 1, Len(handling))
       /\ handled' = Append(handled, [id |-> id, outcome |-> outcome])
       /\ _sendQueue' = r.queue
       /\ enqueued' = enqueued \o r.pushed
       /\ sent' = sent \o Transmitted(r.out, communicatorWs)
       /\ raised' = r.error
       /\ flushed' = Len(r.out)
       /\ lastMessage' = NoMessage
       /\ UNCHANGED <<timeVars, findVars, actVars, waitVars, runVars, dispatchVars, helperVars, extVars, _responses, _sendQueueCount, communicatorWs, lifeVars, readyState,
                      promises, abandoned, assigned, received>>

\* onMessage(rawData), response branch.
OnMessageResponse ==
  \E data \in InboundMessages :
    /\ CanReceive
    /\ onMessageBranch(data) = "response"
    /\ received' = received + 1
    /\ lastMessage' = data
    /\ flushed' = 0
    /\ LET response == lookupResponse(_responses, data.id)
       IN IF response = NoEntry
            THEN /\ raised' = "No such response"
                 /\ UNCHANGED <<_responses, promises>>
            ELSE /\ raised' = "none"
                 /\ _responses' = WithoutEntry(_responses, data.id)
                 /\ promises' = IF promises[response].state = "pending"
                                  THEN [promises EXCEPT ![response] = settle(data.data)]
                                  ELSE promises
    /\ UNCHANGED <<timeVars, findVars, actVars, waitVars, runVars, dispatchVars, helperVars, extVars, _sendQueue, _sendQueueCount, communicatorWs, lifeVars, readyState,
                   handling, abandoned, assigned, enqueued, sent, handled>>

\* onMessage(rawData), any other type.
OnMessageUnknown ==
  \E data \in InboundMessages :
    /\ CanReceive
    /\ onMessageBranch(data) = "unknown"
    /\ received' = received + 1
    /\ lastMessage' = data
    /\ flushed' = 0
    /\ raised' = "Unknown type"
    /\ UNCHANGED <<timeVars, findVars, actVars, waitVars, runVars, dispatchVars, helperVars, extVars, commVars, lifeVars, readyState, handling, promises, abandoned,
                   assigned, enqueued, sent, handled>>

\* ------------------------------------------------------ socket events

\* onWebSocketConnection(ws): the listening server accepted a connection.
OnWebSocketConnection ==
  /\ clientWss = "listening"
  /\ Len(readyState) < MaxConnections + reinits
  /\ LET c == Len(readyState) + 1
         r == flushSendQueue(_sendQueue, TRUE, <<>>)   \* onOpen()
     IN /\ readyState' = Append(readyState, OPEN)
        /\ ws' = c
        /\ communicatorWs' = c
        /\ _sendQueue' = r.queue
        /\ sent' = sent \o Transmitted(r.out, c)
        /\ raised' = r.error
        /\ flushed' = Len(r.out)
  /\ lastMessage' = NoMessage
  /\ waitHandles' = FALSE
  /\ pc' = IF waitHandles /\ pc = "start_waiting" THEN "start_connected" ELSE pc
  /\ UNCHANGED <<timeVars, findVars, actVars, waitVars, runVars, dispatchVars, helperVars, extVars, _responses, _sendQueueCount, reinitializing, _started, _baseSelector,
                 driver, clientWss, reinits, handling, promises, abandoned, assigned,
                 enqueued, handled, received>>

\* The Page Helper's socket closes (page reload, tab closed, network).
\* SystemTest registers no listener for a connection's close event.
ClientSocketCloses ==
  \E c \in DOMAIN readyState :
    /\ readyState[c] = OPEN
    /\ readyState' = [readyState EXCEPT ![c] = CLOSED]
    /\ Quiet
    /\ UNCHANGED <<timeVars, findVars, actVars, waitVars, runVars, dispatchVars, helperVars, extVars, commVars, lifeVars, handling, obsVars>>

\* ------------------------------------------------------------ lifecycle

\* start() up to the lookup of the root marker: driver built, timeouts set,
\* listening server started, root path visited.
StartBegin ==
  /\ pc = "constructed"
  /\ driver' = "active"
  /\ clientWss' = "listening"
  /\ pc' = "start_find"
  /\ _timeouts' = StartTimeouts             \* setTimeouts(10000)
  /\ _driverTimeouts' = StartTimeouts
  /\ Quiet
  /\ UNCHANGED <<findVars, actVars, waitVars, runVars, dispatchVars, helperVars, extVars, commVars, ws, reinitializing, _started, _baseSelector, waitHandles,
                 reinits, readyState, handling, obsVars>>

\* start(): the root marker lookups finished; on success start() calls
\* waitForClientWebSocket(), on failure it takes a screenshot and throws.
StartFind ==
  \E found \in BOOLEAN :
    /\ pc = "start_find"
    /\ IF found
         THEN /\ waitHandles' = TRUE
              /\ pc' = waitForClientWebSocket(ws)
              /\ UNCHANGED reinitializing
         ELSE /\ pc' = "failed"
              /\ reinitializing' = FALSE
              /\ UNCHANGED waitHandles
    /\ lastMessage' = NoMessage
    /\ flushed' = 0
    /\ raised' = IF found THEN "none" ELSE "Element couldn't be found"
    /\ UNCHANGED <<timeVars, findVars, actVars, waitVars, runVars, dispatchVars, helperVars, extVars, commVars, ws, _started, _baseSelector, driver, clientWss, reinits,
                   readyState, handling, obsVars>>

\* The listening server emits "error" (its port is taken, say): a pending
\* waitForClientWebSocket() is rejected and start() throws; with no wait
\* pending the error goes unnoticed.
ClientWssError ==
  /\ clientWss = "listening"
  /\ pc \in {"start_find", "start_waiting"}
  /\ clientWss' = "errored"
  /\ IF waitHandles
       THEN /\ pc' = "failed"
            /\ waitHandles' = FALSE
            /\ reinitializing' = FALSE
       ELSE UNCHANGED <<pc, waitHandles, reinitializing>>
  /\ lastMessage' = NoMessage
  /\ flushed' = 0
  /\ raised' = IF waitHandles THEN "server error" ELSE "none"
  /\ UNCHANGED <<timeVars, findVars, actVars, waitVars, runVars, dispatchVars, helperVars, extVars, commVars, ws, _started, _baseSelector,
                 driver, reinits, readyState, handling, obsVars>>

\* start() after waitForClientWebSocket() resolved.
StartFinish ==
  /\ pc = "start_connected"
  /\ _started' = TRUE
  /\ _baseSelector' = RootScope
  /\ pc' = "ready"
  /\ reinitializing' = FALSE
  /\ Quiet
  /\ UNCHANGED <<timeVars, findVars, actVars, waitVars, runVars, dispatchVars, helperVars, extVars, commVars, ws, driver, clientWss, waitHandles, reinits, readyState,
                 handling, obsVars>>

\* stop() is called on a started session.
Stop ==
  /\ pc = "ready"
  /\ pc' = "stop_scoundrel"
  /\ Quiet
  /\ UNCHANGED <<timeVars, findVars, actVars, waitVars, runVars, dispatchVars, helperVars, extVars, commVars, ws, reinitializing, _started, _baseSelector, driver, clientWss,
                 waitHandles, reinits, readyState, handling, obsVars>>

\* reinitialize() is called on a started session: it begins with stop().
Reinitialize ==
  /\ pc = "ready"
  /\ reinits < MaxReinits
  /\ reinits' = reinits + 1
  /\ reinitializing' = TRUE
  /\ pc' = "stop_scoundrel"
  /\ Quiet
  /\ UNCHANGED <<timeVars, findVars, actVars, waitVars, runVars, dispatchVars, helperVars, extVars, commVars, ws, _started, _baseSelector, driver, clientWss, waitHandles,
                 readyState, handling, obsVars>>

\* stop(): stopScoundrel() and systemTestHttpServer.close() settled.  On
\* success stop() closes the Page Helper socket, drops its reference and
\* calls closeWebSocketServer(clientWss), which terminates every client.
StopCloseSockets ==
  \E ok \in BOOLEAN :
    /\ pc = "stop_scoundrel"
    /\ IF ok
         THEN /\ ws' = Null
              /\ readyState' = [c \in DOMAIN readyState |->
                                  IF readyState[c] = OPEN THEN CLOSING ELSE readyState[c]]
              /\ pc' = "stop_wss"
              /\ UNCHANGED reinitializing
         ELSE /\ pc' = "stop_failed"
              /\ reinitializing' = FALSE
              /\ UNCHANGED <<ws, readyState>>
    /\ lastMessage' = NoMessage
    /\ flushed' = 0
    /\ raised' = IF ok THEN "none" ELSE "stop failed"
    /\ UNCHANGED <<timeVars, findVars, actVars, waitVars, runVars, dispatchVars, helperVars, extVars, commVars, _started, _baseSelector, driver, clientWss, waitHandles,
                   reinits, handling, obsVars>>

\* stop(): the listening server emitted "close": onWebSocketClose() runs and
\* closeWebSocketServer() resolves.
OnWebSocketClose ==
  /\ pc = "stop_wss"
  /\ ws' = Null
  /\ communicatorWs' = Null
  /\ waitHandles' = FALSE
  /\ clientWss' = "closed"
  /\ readyState' = [c \in DOMAIN readyState |-> CLOSED]
  /\ pc' = "stop_driver"
  /\ Quiet
  /\ UNCHANGED <<timeVars, findVars, actVars, waitVars, runVars, dispatchVars, helperVars, extVars, _responses, _sendQueue, _sendQueueCount, reinitializing, _started,
                 _baseSelector, driver, reinits, handling, obsVars>>

\* stop(): driver.quit() settled; stop() returns.
StopDriverQuit ==
  /\ pc = "stop_driver"
  /\ driver' = "quit"
  /\ pc' = IF reinitializing THEN "reinit_reset" ELSE "stopped"
  /\ Quiet
  /\ UNCHANGED <<timeVars, findVars, actVars, waitVars, runVars, dispatchVars, helperVars, extVars, commVars, ws, reinitializing, _started, _baseSelector, clientWss,
                 waitHandles, reinits, readyState, handling, obsVars>>

PendingPromises == {p \in DOMAIN promises : promises[p].state = "pending"}

\* reinitialize() after stop(): the per-instance state is reset and a new
\* communicator replaces the old one; start() follows.
ReinitReset ==
  /\ pc = "reinit_reset"
  /\ _started' = resetStarted(_started)
  /\ _baseSelector' = resetBaseSelector(_baseSelector)
  /\ driver' = "undefined"
  /\ ws' = Null
  /\ clientWss' = "undefined"
  /\ waitHandles' = FALSE
  /\ _responses' = <<>>
  /\ _sendQueue' = <<>>
  /\ _sendQueueCount' = 0
  /\ communicatorWs' = Null
  /\ abandoned' = abandoned + Cardinality(PendingPromises)
  /\ promises' = <<>>
  /\ assigned' = <<>>
  /\ enqueued' = <<>>
  /\ sent' = <<>>
  /\ handled' = <<>>
  /\ handling' = <<>>
  /\ pc' = "constructed"
  /\ Quiet
  /\ UNCHANGED <<timeVars, findVars, actVars, waitVars, runVars, dispatchVars, helperVars, extVars, reinitializing, reinits, readyState, received>>

\* The channel of one communicator instance: commands sent and received
\* before and after the Page Helper connects to the listening server that
\* start() opens.  The rest of the lifecycle is in NextLifecycle.
Next ==
  \/ SendCommand
  \/ OnMessageIgnored
  \/ OnMessageCommand
  \/ HandlerSettles
  \/ OnMessageResponse
  \/ OnMessageUnknown
  \/ OnWebSocketConnection
  \/ ClientSocketCloses
  \/ StartBegin

Spec == Init /\ [][Next]_vars

\* The whole lifecycle: start, stop and reinitialize, with commands sent
\* and answered meanwhile.  Inbound commands are left out: their handling
\* touches only the outbound queue.
NextLifecycle ==
  \/ SendCommand
  \/ OnMessageResponse
  \/ OnWebSocketConnection
  \/ ClientSocketCloses
  \/ StartBegin
  \/ StartFind
  \/ StartFinish
  \/ Stop
  \/ Reinitialize
  \/ StopCloseSockets
  \/ OnWebSocketClose
  \/ StopDriverQuit
  \/ ReinitReset

SpecLifecycle == Init /\ [][NextLifecycle]_vars

\* The session alone: start, stop and reinitialize with the Page Helper
\* connecting and going away, and no command under way.
NextSession ==
  \/ OnWebSocketConnection
  \/ ClientSocketCloses
  \/ StartBegin
  \/ StartFind
  \/ ClientWssError
  \/ StartFinish
  \/ Stop
  \/ Reinitialize
  \/ StopCloseSockets
  \/ OnWebSocketClose
  \/ StopDriverQuit
  \/ ReinitReset

SpecSession == Init /\ [][NextSession]_vars

\* The same for a session constructed with any arguments.
SpecConfigured == InitAnyArgs /\ [][NextSession]_vars

\* The same, with start() and reinitialize() going on whenever the await
\* they are at has settled.  Nothing makes the Page Helper connect or the
\* listening server fail.
SpecSessionFair ==
  /\ SpecSession
  /\ WF_vars(StartFind)
  /\ WF_vars(StartFinish)
  /\ WF_vars(ReinitReset)

\* ------------------------------------------------------ element lookups

\* How long the lookup waits for a first match: driver.wait(..., actualTimeout)
\* or, with actualTimeout 0, one findElements under the implicit wait.
waitLimit == IF call.actualTimeout = 0 THEN _driverTimeouts ELSE call.actualTimeout

Scoped == getSelector(_baseSelector, Selector)

\* The call settles with `result` (the findResult of find()).
Settle(result) ==
  /\ findResult' = IF call.noWait THEN findNoWaitOutcome(result, _timeouts) ELSE result
  /\ _driverTimeouts' = restoredDriverTimeouts(call.noWait, _timeouts, _driverTimeouts)
  /\ fpc' = "done"

chanVars == <<commVars, lifeVars, readyState, handling, obsVars, stepVars>>
otherVars == <<chanVars, actVars, waitVars, runVars, dispatchVars, helperVars, extVars>>
coreVars == <<chanVars, actVars, waitVars, runVars, dispatchVars, helperVars, timeVars, findVars>>

\* find(selector, args) or findNoWait(selector, args) is called: the
\* synchronous start of all(), up to the first findElements.
FindCall ==
  \E args \in FindArgs, noWait \in BOOLEAN :
    /\ fpc = "idle"
    /\ driver = "active"
    /\ LET driverTimeouts == IF noWait THEN 0 ELSE _driverTimeouts
       IN /\ _driverTimeouts' = driverTimeouts
          /\ call' = [args |-> args, noWait |-> noWait, looked |-> TRUE,
                      actualTimeout |-> actualTimeout(args, driverTimeouts),
                      actualSelector |-> actualSelector(args, _baseSelector, Selector)]
    /\ fpc' = "lookup"
    /\ elapsed' = 0
    /\ elements' = <<>>
    /\ stale' = {}
    /\ probed' = 0
    /\ activeElements' = <<>>
    /\ findResult' = NoOutcome
    /\ UNCHANGED <<otherVars, _timeouts, dom>>

\* find(selector, args) or findNoWait(selector, args) is called before
\* start() built the driver.  findNoWait has set _driverTimeouts by then and
\* is outside its try.
FindWithoutDriver ==
  \E args \in FindArgs, noWait \in BOOLEAN :
    /\ fpc = "idle"
    /\ driver # "active"
    /\ _driverTimeouts' = IF noWait THEN 0 ELSE _driverTimeouts
    /\ call' = [args |-> args, noWait |-> noWait, looked |-> FALSE,
                actualTimeout |-> actualTimeout(args, _driverTimeouts'),
                actualSelector |-> actualSelector(args, _baseSelector, Selector)]
    /\ findResult' = IF noWait THEN findNoWaitNoDriver
                               ELSE findNoDriver(call'.actualSelector, Scoped)
    /\ fpc' = "done"
    /\ elapsed' = 0
    /\ elements' = <<>>
    /\ stale' = {}
    /\ probed' = 0
    /\ activeElements' = <<>>
    /\ UNCHANGED <<otherVars, _timeouts, dom>>

\* all(): findElements returned at least one element.  Without a boolean
\* `visible` every element is kept and find() settles at once.
LookupFinds ==
  /\ fpc = "lookup"
  /\ LET found == findElements(dom, call.actualSelector)
     IN /\ found # <<>>
        /\ elements' = found
        /\ IF argVisible(call.args) \in {"true", "false"}
             THEN /\ fpc' = "filter"
                  /\ UNCHANGED <<activeElements, findResult, _driverTimeouts>>
             ELSE /\ activeElements' = found
                  /\ Settle(find(found, _timeouts, Scoped))
  /\ UNCHANGED <<otherVars, _timeouts, dom, call, elapsed, stale, probed>>

\* Time passes while nothing matches.
TimePasses ==
  /\ fpc = "lookup"
  /\ findElements(dom, call.actualSelector) = <<>>
  /\ elapsed < waitLimit
  /\ elapsed' = waitLimit
  /\ UNCHANGED <<otherVars, timeVars, dom, call, fpc, elements, stale, probed,
                 activeElements, findResult>>

\* all(): the wait is over and nothing matched.  With actualTimeout 0 the
\* single findElements returned [], otherwise driver.wait threw.
LookupEmpty ==
  /\ fpc = "lookup"
  /\ findElements(dom, call.actualSelector) = <<>>
  /\ elapsed >= waitLimit
  /\ Settle(IF call.actualTimeout = 0
              THEN find(<<>>, _timeouts, Scoped)
              ELSE findWaitTimedOut(elapsed, call.actualSelector, Scoped))
  /\ UNCHANGED <<otherVars, _timeouts, dom, call, elapsed, elements, stale, probed,
                 activeElements>>

\* all(): findElements threw: the backend failed, or timed out on the
\* operation, or met a stale element.  all() wraps whatever was thrown.
LookupFails ==
  \E name \in BackendFailures :
    /\ fpc = "lookup"
    /\ Settle(findLookupFailed(name, call.actualSelector, Scoped))
    /\ UNCHANGED <<otherVars, _timeouts, dom, call, elapsed, elements, stale, probed,
                   activeElements>>

\* all(): `await element.isDisplayed()` on the next element settled.  After
\* the last element all() returns and find() settles.
Probe ==
  /\ fpc = "filter"
  /\ LET e == elements[probed + 1]
         kept == IF keep(argVisible(call.args), dom[e].displayed)
                   THEN Append(activeElements, e) ELSE activeElements
     IN IF e \in stale
          THEN /\ Settle(findStale(Scoped))
               /\ UNCHANGED <<probed, activeElements>>
          ELSE /\ probed' = probed + 1
               /\ activeElements' = kept
               /\ IF probed + 1 = Len(elements)
                    THEN Settle(find(kept, _timeouts, Scoped))
                    ELSE UNCHANGED <<fpc, findResult, _driverTimeouts>>
  /\ UNCHANGED <<otherVars, _timeouts, dom, call, elapsed, elements, stale>>

Range(seq) == {seq[i] : i \in DOMAIN seq}

\* The page changes under the test: an element that `Selector` names is
\* added, removed or shown/hidden.  A removed element that a pending all()
\* or waitForNoSelector holds becomes a stale reference.  A change after a
\* call settled is left to the time after the caller took the outcome, where
\* it has the same effect.
DomChanges ==
  \E e \in Elements, s \in ElementStates :
    /\ driver = "active"
    /\ fpc # "done"
    /\ wpc # "done"
    /\ s # dom[e]
    /\ dom' = [dom EXCEPT ![e] = s]
    /\ stale' = IF fpc = "filter" /\ e \in Range(elements) /\ ~s.present
                  THEN stale \cup {e} ELSE stale
    /\ wstale' = IF wpc = "probe" /\ e \in Range(welements) /\ ~s.present
                   THEN wstale \cup {e} ELSE wstale
    /\ UNCHANGED <<chanVars, actVars, runVars, dispatchVars, helperVars, extVars, timeVars, call, fpc, elapsed, elements, probed,
                   activeElements, findResult, wcall, wpc, welements, wdom, welapsed,
                   polls, wresult>>

\* setTimeouts(newTimeout): restoreTimeouts() throws when the new value is
\* falsy, before the driver is touched.
SetTimeouts ==
  \E newTimeout \in TimeoutValues :
    /\ fpc = "idle"
    /\ driver = "active"
    /\ newTimeout # _timeouts
    /\ _timeouts' = newTimeout
    /\ _driverTimeouts' = IF newTimeout = 0 THEN _driverTimeouts ELSE newTimeout
    /\ UNCHANGED <<otherVars, findVars>>

\* setBaseSelector(baseSelector)
SetBaseSelector ==
  \E baseSelector \in {RootScope, OtherScope} :
    /\ fpc = "idle"
    /\ baseSelector # _baseSelector
    /\ _baseSelector' = baseSelector
    /\ UNCHANGED <<commVars, ws, pc, reinitializing, _started, driver, clientWss,
                   waitHandles, reinits, readyState, handling, obsVars, stepVars,
                   timeVars, findVars, actVars, waitVars, runVars, dispatchVars, helperVars, extVars>>

\* The caller has the outcome of the call: the test goes on.
FindReturns ==
  /\ fpc = "done"
  /\ fpc' = "idle"
  /\ call' = NoCall
  /\ elapsed' = 0
  /\ elements' = <<>>
  /\ stale' = {}
  /\ probed' = 0
  /\ activeElements' = <<>>
  /\ findResult' = NoOutcome
  /\ UNCHANGED <<otherVars, timeVars, dom>>

\* Element lookups of a session whose driver start() has built.
NextFind ==
  \/ StartBegin
  \/ SetTimeouts
  \/ SetBaseSelector
  \/ DomChanges
  \/ FindCall
  \/ FindWithoutDriver
  \/ LookupFinds
  \/ TimePasses
  \/ LookupEmpty
  \/ LookupFails
  \/ Probe
  \/ FindReturns

SpecFind == Init /\ [][NextFind]_vars

\* ------------------------------------------------- click and interact

\* interact(elementOrIdentifier, methodName) or click(elementOrIdentifier)
\* is called: `tries++` and the call of _findElement.
InteractCall ==
  \E operation \in {"interact", "click"}, target \in Targets, method \in Methods :
    /\ ipc = "idle"
    /\ operation = "click" => method = "click"
    /\ op' = [name |-> operation, target |-> target, method |-> method]
    /\ ipc' = "resolve"
    /\ tries' = 1
    /\ resolved' = <<>>
    /\ invocations' = 0
    /\ history' = <<>>
    /\ iresult' = NoResult
    /\ UNCHANGED <<chanVars, timeVars, findVars, waitVars, runVars, dispatchVars, helperVars, extVars>>

\* _findElement settled.  An element handle is passed through, a selector
\* goes to find().  With an element in hand interact() checks the method and
\* both call the native action; an error of find() leaves interact() as it
\* is and click() wrapped.
ResolveSettles ==
  \E outcome \in ResolveOutcomes :
    /\ ipc = "resolve"
    /\ op.target = "element" => outcome = "element"
    /\ resolved' = IF op.target = "selector" THEN Append(resolved, outcome) ELSE resolved
    /\ IF outcome # "element"
         THEN /\ iresult' = IF op.name = "click"
                              THEN failed(op.name, op.target, op.method, outcome)
                              ELSE resolveError(outcome)
              /\ ipc' = "done"
              /\ UNCHANGED invocations
         ELSE IF op.name = "interact" /\ methodCheck(op.method) # NoResult
           THEN /\ iresult' = methodCheck(op.method)
                /\ ipc' = "done"
                /\ UNCHANGED invocations
           ELSE /\ invocations' = invocations + 1
                /\ ipc' = "invoke"
                /\ UNCHANGED iresult
    /\ UNCHANGED <<chanVars, timeVars, findVars, waitVars, runVars, dispatchVars, helperVars, extVars, op, tries, history>>

\* The native action settled: element[methodName](...args) of interact(),
\* actions.move({origin: element}).click().perform() of click().
InvokeSettles ==
  \E outcome \in InvokeOutcomes :
    /\ ipc = "invoke"
    /\ history' = Append(history, outcome)
    /\ IF outcome.kind = "returned"
         THEN /\ iresult' = Value(IF op.name = "click" THEN Undefined ELSE outcome.name)
              /\ ipc' = "done"
         ELSE LET thrown == onActionError(op.name, op.target, op.method, tries, outcome)
              IN IF thrown.kind = "retry"
                   THEN /\ ipc' = "backoff"
                        /\ UNCHANGED iresult
                   ELSE /\ iresult' = thrown
                        /\ ipc' = "done"
    /\ UNCHANGED <<chanVars, timeVars, findVars, waitVars, runVars, dispatchVars, helperVars, extVars, op, tries, resolved, invocations>>

\* `await wait(50)` is over: the loop starts again with `tries++` and the
\* call of _findElement.
BackoffElapses ==
  /\ ipc = "backoff"
  /\ tries' = tries + 1
  /\ ipc' = "resolve"
  /\ UNCHANGED <<chanVars, timeVars, findVars, waitVars, runVars, dispatchVars, helperVars, extVars, op, resolved, invocations, history, iresult>>

\* The caller has the outcome of the operation.
InteractReturns ==
  /\ ipc = "done"
  /\ op' = NoOp
  /\ ipc' = "idle"
  /\ tries' = 0
  /\ resolved' = <<>>
  /\ invocations' = 0
  /\ history' = <<>>
  /\ iresult' = NoResult
  /\ UNCHANGED <<chanVars, timeVars, findVars, waitVars, runVars, dispatchVars, helperVars, extVars>>

\* click() and interact() against elements whose actions fail or succeed.
NextInteract ==
  \/ InteractCall
  \/ ResolveSettles
  \/ InvokeSettles
  \/ BackoffElapses
  \/ InteractReturns

SpecInteract == Init /\ [][NextInteract]_vars

\* ------------------------------------------------- waitForNoSelector

\* waitForNoSelector(selector, args) is called: the arguments are taken
\* apart, and driver.wait is called unless they or getDriver() throw.
WaitCall ==
  \E args \in WaitArgs :
    /\ wpc = "idle"
    /\ wcall' = [args |-> args,
                 actualSelector |-> IF waitArgsError(args) = NoWaitResult
                                      THEN waitActualSelector(args, _baseSelector, Selector)
                                      ELSE ""]
    /\ IF waitArgsError(args) # NoWaitResult
         THEN wpc' = "done" /\ wresult' = waitArgsError(args)
         ELSE IF driver # "active"
           THEN wpc' = "done" /\ wresult' = waitNoDriver
           ELSE wpc' = "poll" /\ wresult' = NoWaitResult
    /\ welements' = <<>>
    /\ wdom' = dom
    /\ wstale' = {}
    /\ welapsed' = 0
    /\ polls' = 0
    /\ UNCHANGED <<chanVars, actVars, runVars, dispatchVars, helperVars, extVars, timeVars, findVars>>

\* The condition runs: findElements settled.  An empty result, which the
\* driver returns once the implicit wait is over, ends the wait.
WaitLookup ==
  /\ wpc = "poll"
  /\ polls < MaxPolls \/ welapsed >= _timeouts
  /\ polls' = polls + 1
  /\ LET found == findElements(dom, wcall.actualSelector)
     IN /\ welements' = found
        /\ wdom' = dom
        /\ IF found = <<>>
             THEN /\ wpc' = "done"
                  /\ wresult' = WaitDone
                  /\ welapsed' = welapsed + _driverTimeouts
             ELSE /\ wpc' = "probe"
                  /\ UNCHANGED <<wresult, welapsed>>
  /\ wstale' = {}
  /\ UNCHANGED <<chanVars, actVars, runVars, dispatchVars, helperVars, extVars, timeVars, findVars, wcall>>

\* The condition runs: findElements threw, driver.wait rejects.
WaitLookupFails ==
  /\ wpc = "poll"
  /\ polls < MaxPolls \/ welapsed >= _timeouts
  /\ polls' = polls + 1
  /\ wpc' = "done"
  /\ wresult' = _withRethrownErrors("WebDriverError", "lookup")
  /\ UNCHANGED <<chanVars, actVars, runVars, dispatchVars, helperVars, extVars, timeVars, findVars, wcall, welements, wdom, wstale, welapsed>>

\* `await elements[0].isDisplayed()` settled.  A throw rejects driver.wait;
\* a false condition makes driver.wait try again or, with the timeout over,
\* reject with a TimeoutError.
WaitProbe ==
  /\ wpc = "probe"
  /\ LET e == welements[1]
     IN IF e \in wstale
          THEN /\ wpc' = "done"
               /\ wresult' = _withRethrownErrors(StaleReference, "probe")
          ELSE IF waitCondition(dom[e].displayed)
            THEN /\ wpc' = "done"
                 /\ wresult' = WaitDone
            ELSE IF welapsed >= _timeouts
              THEN /\ wpc' = "done"
                   /\ wresult' = _withRethrownErrors("TimeoutError", "wait")
              ELSE /\ wpc' = "poll"
                   /\ UNCHANGED wresult
  /\ UNCHANGED <<chanVars, actVars, runVars, dispatchVars, helperVars, extVars, timeVars, findVars, wcall, welements, wdom, wstale,
                 welapsed, polls>>

\* Time passes while driver.wait is pending.
WaitTimePasses ==
  /\ wpc \in {"poll", "probe"}
  /\ welapsed < _timeouts
  /\ welapsed' = _timeouts
  /\ UNCHANGED <<chanVars, actVars, runVars, dispatchVars, helperVars, extVars, timeVars, findVars, wcall, wpc, welements, wdom, wstale,
                 polls, wresult>>

\* The caller has the outcome of the call.
WaitReturns ==
  /\ wpc = "done"
  /\ wpc' = "idle"
  /\ wcall' = NoWait
  /\ welements' = <<>>
  /\ wdom' = dom
  /\ wstale' = {}
  /\ welapsed' = 0
  /\ polls' = 0
  /\ wresult' = NoWaitResult
  /\ UNCHANGED <<chanVars, actVars, runVars, dispatchVars, helperVars, extVars, timeVars, findVars>>

\* waitForNoSelector against a page that changes under it.
NextWait ==
  \/ StartBegin
  \/ SetBaseSelector
  \/ DomChanges
  \/ WaitCall
  \/ WaitLookup
  \/ WaitLookupFails
  \/ WaitProbe
  \/ WaitTimePasses
  \/ WaitReturns

SpecWait == Init /\ [][NextWait]_vars

\* ------------------------------------------------- SystemTest.run

\* sendCommand(data) as run() calls it.
RunSends(data) ==
  /\ LET id == sendCommandId(_sendQueueCount)
         envelope == CommandEnvelope(id, data)
         r == send(_sendQueue, envelope, SocketOpen(communicatorWs))
     IN /\ _sendQueueCount' = sendCommandNextCount(_sendQueueCount)
        /\ promises' = Append(promises, Pending)
        /\ _responses' = WithEntry(_responses, id, Len(promises) + 1)
        /\ assigned' = Append(assigned, id)
        /\ _sendQueue' = r.queue
        /\ enqueued' = enqueued \o r.pushed
        /\ sent' = sent \o Transmitted(r.out, communicatorWs)
        /\ raised' = r.error
        /\ flushed' = Len(r.out)
  /\ lastMessage' = NoMessage
  /\ rsent' = Append(rsent, Len(promises) + 1)
  /\ UNCHANGED <<communicatorWs, abandoned, handled, received>>

\* run() throws `error` that `step` failed with, without a screenshot.
RunThrows(step, error) ==
  /\ rpc' = "done"
  /\ rerror' = [step |-> step, error |-> error]
  /\ rresult' = RunThrew(error)
  /\ Quiet
  /\ UNCHANGED <<commVars, obsVars, rsent, rlog>>

\* SystemTest.run(args, callback) is called: without a callback it throws,
\* with one it sends the initialize command.
RunCall ==
  \E hasCallback \in BOOLEAN :
    /\ rpc = "idle"
    /\ IF hasCallback
         THEN /\ _sendQueueCount + 1 < MaxCommands
              /\ RunSends(InitializeCommand)
              /\ rlog' = <<"initialize sent">>
              /\ rpc' = "initialize"
              /\ UNCHANGED <<rerror, rresult>>
         ELSE /\ rpc' = "done"
              /\ rresult' = RunThrew("SystemTest.run requires a callback")
              /\ Quiet
              /\ UNCHANGED <<commVars, obsVars, rsent, rlog, rerror>>
    /\ UNCHANGED <<lifeVars, readyState, handling, timeVars, findVars, actVars, waitVars, dispatchVars, helperVars, extVars>>

\* The promise of the initialize command settled: run() sends the dismissTo
\* command, or throws.
InitializeSettles ==
  /\ rpc = "initialize"
  /\ promises[rsent[1]].state # "pending"
  /\ IF runProceeds(promises[rsent[1]])
       THEN /\ RunSends(DismissToCommand)
            /\ rlog' = rlog \o <<"initialize answered", "dismissTo sent">>
            /\ rpc' = "dismissTo"
            /\ UNCHANGED <<rerror, rresult>>
       ELSE RunThrows("initialize", promises[rsent[1]].value)
  /\ UNCHANGED <<lifeVars, readyState, handling, timeVars, findVars, actVars, waitVars, dispatchVars, helperVars, extVars>>

\* The promise of the dismissTo command settled: run() enters its try block
\* and looks for the marker of the root path, or throws.
DismissToSettles ==
  /\ rpc = "dismissTo"
  /\ promises[rsent[2]].state # "pending"
  /\ IF runProceeds(promises[rsent[2]])
       THEN /\ rlog' = Append(rlog, "dismissTo answered")
            /\ rpc' = "find"
            /\ Quiet
            /\ UNCHANGED <<commVars, obsVars, rsent, rerror, rresult>>
       ELSE RunThrows("dismissTo", promises[rsent[2]].value)
  /\ UNCHANGED <<lifeVars, readyState, handling, timeVars, findVars, actVars, waitVars, dispatchVars, helperVars, extVars>>

\* findByTestID("blankText") settled: the callback is invoked, or the catch
\* block begins with takeScreenshot().
MarkerSettles ==
  \E outcome \in MarkerOutcomes :
    /\ rpc = "find"
    /\ IF outcome = "found"
         THEN /\ rlog' = rlog \o <<"marker found", "callback invoked">>
              /\ rpc' = "callback"
              /\ UNCHANGED rerror
         ELSE /\ rerror' = [step |-> "find", error |-> outcome]
              /\ rpc' = "screenshot"
              /\ UNCHANGED rlog
    /\ Quiet
    /\ UNCHANGED <<commVars, obsVars, lifeVars, readyState, handling, timeVars, findVars,
                   actVars, waitVars, dispatchVars, helperVars, extVars, rsent, rresult>>

\* The callback settled: run() returns, or the catch block begins.
CallbackSettles ==
  \E outcome \in CallbackOutcomes :
    /\ rpc = "callback"
    /\ IF outcome = "returned"
         THEN /\ rlog' = Append(rlog, "callback returned")
              /\ rpc' = "done"
              /\ rresult' = RunReturned
              /\ UNCHANGED rerror
         ELSE /\ rerror' = [step |-> "callback", error |-> outcome]
              /\ rpc' = "screenshot"
              /\ UNCHANGED <<rlog, rresult>>
    /\ Quiet
    /\ UNCHANGED <<commVars, obsVars, lifeVars, readyState, handling, timeVars, findVars,
                   actVars, waitVars, dispatchVars, helperVars, extVars, rsent>>

\* takeScreenshot() settled in the catch block: `throw error` follows it,
\* unless it threw itself.
ScreenshotSettles ==
  \E outcome \in ScreenshotOutcomes :
    /\ rpc = "screenshot"
    /\ rpc' = "done"
    /\ IF outcome = "saved"
         THEN /\ rlog' = Append(rlog, "diagnostics captured")
              /\ rresult' = RunThrew(rerror.error)
         ELSE /\ rresult' = RunThrew(outcome)
              /\ UNCHANGED rlog
    /\ Quiet
    /\ UNCHANGED <<commVars, obsVars, lifeVars, readyState, handling, timeVars, findVars,
                   actVars, waitVars, dispatchVars, helperVars, extVars, rsent, rerror>>

\* The caller has the outcome of run().
RunReturns ==
  /\ rpc = "done"
  /\ rpc' = "idle"
  /\ rsent' = <<>>
  /\ rlog' = <<>>
  /\ rerror' = NoError
  /\ rresult' = NoRunResult
  /\ Quiet
  /\ UNCHANGED <<commVars, obsVars, lifeVars, readyState, handling, timeVars, findVars,
                 actVars, waitVars, dispatchVars, helperVars, extVars>>

\* run() on a session whose Page Helper connects, answers and goes away.
NextRun ==
  \/ StartBegin
  \/ OnWebSocketConnection
  \/ ClientSocketCloses
  \/ OnMessageResponse
  \/ RunCall
  \/ InitializeSettles
  \/ DismissToSettles
  \/ MarkerSettles
  \/ CallbackSettles
  \/ ScreenshotSettles
  \/ RunReturns

SpecRun == Init /\ [][NextRun]_vars

\* ------------------------------------------------- onCommandReceived

\* onCommand(callback)
OnCommand ==
  /\ ~_onCommandCallback
  /\ _onCommandCallback' = TRUE
  /\ UNCHANGED <<chanVars, timeVars, findVars, actVars, waitVars, runVars, helperVars, extVars, command,
                 dispatch>>

\* onCommandReceived({data}) is called by the communicator and settles.
CommandReceived ==
  \E type \in CommandTypes, message \in Messages, verdict \in FilterVerdicts,
     outcome \in HandlerOutcomes :
    LET did == onCommandReceived(type, message, verdict, _onCommandCallback, outcome)
    IN /\ did.invoked \/ outcome.kind = "returned"
       /\ command' = [type |-> type, message |-> message, verdict |-> verdict,
                      registered |-> _onCommandCallback, outcome |-> outcome]
       /\ dispatch' = did
       /\ UNCHANGED <<chanVars, timeVars, findVars, actVars, waitVars, runVars, helperVars, extVars,
                      _onCommandCallback>>

\* Commands of the Page Helper, with and without a registered callback.
NextDispatch ==
  \/ OnCommand
  \/ CommandReceived

SpecDispatch == Init /\ [][NextDispatch]_vars

\* ------------------------------------------- Page Helper: onCommand

HelperTypes == {"initialize", "waitForScoundrel", "visit", "dismissTo", "query"}
CommandEvents == {"navigate", "dismissTo"}
HandlerReturned(value) == [kind |-> "returned", value |-> value]
HandlerThrew(message) == [kind |-> "threwError", value |-> message]
NotSettled == [kind |-> "pending", value |-> Undefined]
\* What an awaited callback of the host application can do.
HelperCallbackOutcomes == {HandlerReturned(Undefined), HandlerThrew("boom")}

\* Variant: an event without listeners is dropped silently.
emitCommandEventSilent(eventName, path, registered) == HandlerReturned(Undefined)

\* emitCommandEvent(eventName, {path}): events.emit() is false without listeners.
emitCommandEvent(eventName, path, registered) ==
  IF eventName \in registered
    THEN HandlerReturned(Undefined)
    ELSE HandlerThrew("No listener registered for command event: " \o eventName
                      \o " (" \o path \o ")")

\* Variant: every initialize command counts as the first one.
firstInitializePendingAlways(hasInitialized) == TRUE

\* if (!this._hasInitialized)
firstInitializePending(hasInitialized) == ~hasInitialized

\* The else branch of onCommand.
unknownCommand(type) ==
  HandlerThrew("Unknown command type for SystemTestBrowserHelper: " \o type)

Answer(rec, outcome) == [rec EXCEPT !.pc = "answered", !.outcome = outcome]

\* if (this._onInitializeCallback) await it; return {result: "initialized"}
runOnInitialize(rec, registered) ==
  IF registered
    THEN [rec EXCEPT !.pc = "initialize", !.inits = @ + 1]
    ELSE Answer(rec, HandlerReturned([result |-> "initialized"]))

\* onFirstInitialize(callback)
OnFirstInitialize ==
  /\ _onFirstInitializeCallback' = TRUE
  /\ UNCHANGED <<chanVars, timeVars, findVars, actVars, waitVars, runVars, dispatchVars, extVars,
                 _hasInitialized, _onInitializeCallback, listeners, hcommands, firstCalls,
                 scoundrelClient>>

\* onInitialize(callback)
OnInitialize ==
  /\ _onInitializeCallback' = TRUE
  /\ UNCHANGED <<chanVars, timeVars, findVars, actVars, waitVars, runVars, dispatchVars, extVars,
                 _hasInitialized, _onFirstInitializeCallback, listeners, hcommands, firstCalls,
                 scoundrelClient>>

\* The host application subscribes to a command event.
AddListener ==
  \E eventName \in CommandEvents :
    /\ listeners' = listeners \cup {eventName}
    /\ UNCHANGED <<chanVars, timeVars, findVars, actVars, waitVars, runVars, dispatchVars, extVars,
                   _hasInitialized, _onFirstInitializeCallback, _onInitializeCallback,
                   hcommands, firstCalls, scoundrelClient>>

\* The host application unsubscribes (the component unmounts).
RemoveListener ==
  \E eventName \in listeners :
    /\ listeners' = listeners \ {eventName}
    /\ UNCHANGED <<chanVars, timeVars, findVars, actVars, waitVars, runVars, dispatchVars, extVars,
                   _hasInitialized, _onFirstInitializeCallback, _onInitializeCallback,
                   hcommands, firstCalls, scoundrelClient>>

\* onCommand({data}) of the Page Helper, up to its first await or its return.
HelperOnCommand ==
  \E type \in HelperTypes :
    LET rec == [type |-> type, path |-> RootPath, pc |-> "called", outcome |-> NotSettled,
                listened |-> type \in {"visit", "dismissTo"}
                               /\ (IF type = "visit" THEN "navigate" ELSE type) \in listeners,
                firstRegistered |-> type = "initialize" /\ _onFirstInitializeCallback,
                initRegistered |-> type = "initialize" /\ _onInitializeCallback,
                firsts |-> 0, inits |-> 0]
        pending == firstInitializePending(_hasInitialized)
    IN /\ Len(hcommands) < MaxHelperCommands
       /\ IF type = "initialize"
            THEN /\ _hasInitialized' = (IF pending THEN TRUE ELSE _hasInitialized)
                 /\ IF pending /\ _onFirstInitializeCallback
                      THEN /\ firstCalls' = firstCalls + 1
                           /\ hcommands' = Append(hcommands,
                                [rec EXCEPT !.pc = "first", !.firsts = 1])
                      ELSE /\ firstCalls' = firstCalls
                           /\ hcommands' = Append(hcommands,
                                runOnInitialize(rec, _onInitializeCallback))
            ELSE /\ UNCHANGED <<_hasInitialized, firstCalls>>
                 /\ hcommands' = Append(hcommands,
                      CASE type = "waitForScoundrel" ->
                             IF scoundrelClient
                               THEN Answer(rec, HandlerReturned([result |-> "scoundrel-ready"]))
                               ELSE [rec EXCEPT !.pc = "scoundrel"]
                        [] type = "visit" ->
                             LET emitted == emitCommandEvent("navigate", rec.path, listeners)
                             IN Answer(rec, IF emitted.kind = "returned"
                                              THEN HandlerReturned([result |-> "visited"])
                                              ELSE emitted)
                        [] type = "dismissTo" ->
                             LET emitted == emitCommandEvent("dismissTo", rec.path, listeners)
                             IN Answer(rec, IF emitted.kind = "returned"
                                              THEN HandlerReturned([result |-> "dismissed"])
                                              ELSE emitted)
                        [] OTHER -> Answer(rec, unknownCommand(type)))
       /\ UNCHANGED <<chanVars, timeVars, findVars, actVars, waitVars, runVars, dispatchVars, extVars,
                      _onFirstInitializeCallback, _onInitializeCallback, listeners,
                      scoundrelClient>>

\* await this._onFirstInitializeCallback() settles.
FirstInitializeSettles ==
  \E i \in DOMAIN hcommands, outcome \in HelperCallbackOutcomes :
    /\ hcommands[i].pc = "first"
    /\ hcommands' = [hcommands EXCEPT ![i] =
         IF outcome.kind = "returned"
           THEN runOnInitialize(@, _onInitializeCallback)
           ELSE Answer(@, outcome)]
    /\ UNCHANGED <<chanVars, timeVars, findVars, actVars, waitVars, runVars, dispatchVars, extVars,
                   _hasInitialized, _onFirstInitializeCallback, _onInitializeCallback,
                   listeners, firstCalls, scoundrelClient>>

\* await this._onInitializeCallback() settles.
InitializeCallbackSettles ==
  \E i \in DOMAIN hcommands, outcome \in HelperCallbackOutcomes :
    /\ hcommands[i].pc = "initialize"
    /\ hcommands' = [hcommands EXCEPT ![i] =
         IF outcome.kind = "returned"
           THEN Answer(@, HandlerReturned([result |-> "initialized"]))
           ELSE Answer(@, outcome)]
    /\ UNCHANGED <<chanVars, timeVars, findVars, actVars, waitVars, runVars, dispatchVars, extVars,
                   _hasInitialized, _onFirstInitializeCallback, _onInitializeCallback,
                   listeners, firstCalls, scoundrelClient>>

\* startScoundrel() gets its client: "scoundrelStarted" resolves the waiting commands.
ScoundrelStarted ==
  /\ ~scoundrelClient
  /\ scoundrelClient' = TRUE
  /\ hcommands' = [i \in DOMAIN hcommands |->
       IF hcommands[i].pc = "scoundrel"
         THEN Answer(hcommands[i], HandlerReturned([result |-> "scoundrel-ready"]))
         ELSE hcommands[i]]
  /\ UNCHANGED <<chanVars, timeVars, findVars, actVars, waitVars, runVars, dispatchVars, extVars,
                 _hasInitialized, _onFirstInitializeCallback, _onInitializeCallback,
                 listeners, firstCalls>>

\* The Page Helper with its host application and the commands of the runner.
NextHelper ==
  \/ OnFirstInitialize
  \/ OnInitialize
  \/ AddListener
  \/ RemoveListener
  \/ HelperOnCommand
  \/ FirstInitializeSettles
  \/ InitializeCallbackSettles
  \/ ScoundrelStarted

SpecHelper == Init /\ [][NextHelper]_vars

\* ------------------------------------------- getScoundrelClient

MaxClients == 2           \* evaluation clients that attach to the server
MaxScoundrelCalls == 2    \* getScoundrelClient calls
DefaultScoundrelTimeout == 10000
ScoundrelTimeouts == {0, DefaultScoundrelTimeout}
ScoundrelTimedOut == "Timed out waiting for Scoundrel client"
NoClient == 0

\* What getScoundrelClient does before it waits.
getScoundrelClientStart(serverStarted, existingClients) ==
  IF ~serverStarted THEN [kind |-> "threw", value |-> "Scoundrel server is not started"]
  ELSE IF Len(existingClients) > 0 THEN [kind |-> "returned", value |-> existingClients[1]]
  ELSE [kind |-> "wait", value |-> NoClient]

\* resolve/reject of a promise: only the first call settles it.
settleOnce(rec, state, value) ==
  [rec EXCEPT !.settles = @ + 1,
              !.state = IF rec.state = "pending" THEN state ELSE @,
              !.value = IF rec.state = "pending" THEN value ELSE @]

\* Variant: onNewClient leaves the timer running.
onNewClientKeepsTimer(rec, client) ==
  [settleOnce(rec, "resolved", client) EXCEPT !.listener = FALSE]

\* onNewClient: clearTimeout(timeout); events.off("newClient"); resolve(client)
onNewClient(rec, client) ==
  [settleOnce(rec, "resolved", client) EXCEPT !.listener = FALSE, !.timer = FALSE]

\* The timer's callback: events.off("newClient"); reject(new Error(...))
onScoundrelTimeout(rec) ==
  [settleOnce(rec, "rejected", NoClient) EXCEPT !.listener = FALSE, !.timer = FALSE,
                                                !.error = ScoundrelTimedOut]

\* getScoundrelClient(timeoutMs), up to its return or its wait.
GetScoundrelClient ==
  \E timeoutMs \in ScoundrelTimeouts :
    LET begun == getScoundrelClientStart(TRUE, sclients)
        rec == [timeoutMs |-> timeoutMs, called |-> sclock, existing |-> Len(sclients),
                listener |-> FALSE, timer |-> FALSE, settles |-> 0, state |-> "pending",
                value |-> NoClient, error |-> "", settledAt |-> 0, late |-> 0]
    IN /\ Len(scalls) < MaxScoundrelCalls
       /\ scalls' = Append(scalls,
            IF begun.kind = "returned"
              THEN [settleOnce(rec, "resolved", begun.value) EXCEPT !.settledAt = sclock]
              ELSE [rec EXCEPT !.listener = TRUE, !.timer = TRUE])
       /\ UNCHANGED <<coreVars, configVars, accessVars, healthVars, sclients, sclock>>

\* A client attaches: the server emits "newClient" to every listener.
NewClient ==
  /\ Len(sclients) < MaxClients
  /\ sclients' = Append(sclients, Len(sclients) + 1)
  /\ scalls' = [i \in DOMAIN scalls |->
       IF scalls[i].listener
         THEN [onNewClient(scalls[i], Len(sclients) + 1) EXCEPT !.settledAt = sclock]
         ELSE [scalls[i] EXCEPT !.late = IF @ = 0 /\ scalls[i].state = "rejected"
                                            THEN Len(sclients) + 1 ELSE @]]
  /\ UNCHANGED <<coreVars, configVars, accessVars, healthVars, sclock>>

\* Time passes up to the next timer that is due.
ScoundrelTimePasses ==
  LET due == {scalls[i].called + scalls[i].timeoutMs : i \in {j \in DOMAIN scalls : scalls[j].timer}}
      later == {t \in due : t > sclock}
  IN /\ later # {}
     /\ sclock' = CHOOSE t \in later : \A u \in later : t <= u
     /\ UNCHANGED <<coreVars, configVars, accessVars, healthVars, sclients, scalls>>

\* The timer of a call fires.
ScoundrelTimerFires ==
  \E i \in DOMAIN scalls :
    /\ scalls[i].timer
    /\ sclock >= scalls[i].called + scalls[i].timeoutMs
    /\ scalls' = [scalls EXCEPT ![i] = [onScoundrelTimeout(@) EXCEPT !.settledAt = sclock]]
    /\ UNCHANGED <<coreVars, configVars, accessVars, healthVars, sclients, sclock>>

\* getScoundrelClient calls while clients attach and time passes.
NextScoundrel ==
  \/ GetScoundrelClient
  \/ NewClient
  \/ ScoundrelTimePasses
  \/ ScoundrelTimerFires

SpecScoundrel == Init /\ [][NextScoundrel]_vars

\* ------------------------------------------- static build: HTTP server

maxAttempts == 3
Response(statusCode) == [kind |-> "response", statusCode |-> statusCode, code |-> "", message |-> ""]
RequestError(code, message) == [kind |-> "error", statusCode |-> 0, code |-> code, message |-> message]
ConnectionReset == RequestError("ECONNRESET", "read ECONNRESET")
\* What one http.get of the health check can end with.
AttemptOutcomes ==
  {Response(200), Response(500), ConnectionReset,
   RequestError("ECONNREFUSED", "connect ECONNREFUSED"),
   RequestError("ETIMEDOUT", "connect ETIMEDOUT"),
   RequestError("", "socket hang up"),
   RequestError("", "HTTP server health check timed out"),
   RequestError("EPIPE", "write EPIPE")}
NoHealthResult == [kind |-> "none"]

\* The error the promise of one attempt is rejected with, if any.
attemptError(outcome) ==
  IF outcome.kind = "response"
    THEN IF outcome.statusCode # 200
           THEN RequestError("", "HTTP server health check failed with status")
           ELSE Response(200)
    ELSE outcome

isRetryableHealthCheckError(error) ==
  \/ error.code \in {"ECONNRESET", "ECONNREFUSED", "ETIMEDOUT"}
  \/ error.message = "socket hang up"

\* The catch block of assertReachable: rethrow or try again.
rethrows(attemptNo, error) ==
  attemptNo = maxAttempts \/ ~isRetryableHealthCheckError(error)

\* start(), SYSTEM_TEST_HOST == "dist": the server is created and listens.
StartHttpServer ==
  /\ httpServer = "none"
  /\ httpServer' = "listening"
  /\ UNCHANGED <<coreVars, configVars, accessVars, scoundrelVars, hpc, attempt, hlog, hresult>>

\* assertReachable() is called.
AssertReachable ==
  /\ hpc \in {"idle", "done"}
  /\ hpc' = "request"
  /\ attempt' = 1
  /\ hlog' = <<>>
  /\ hresult' = NoHealthResult
  /\ UNCHANGED <<coreVars, configVars, accessVars, scoundrelVars, httpServer>>

\* The request of the current attempt settles.
AttemptSettles ==
  \E outcome \in AttemptOutcomes :
    LET error == attemptError(outcome)
    IN /\ hpc = "request"
       /\ hlog' = Append(hlog, outcome)
       /\ IF error.kind = "response"
            THEN hpc' = "done" /\ hresult' = [kind |-> "returned"] /\ UNCHANGED attempt
            ELSE IF rethrows(attempt, error)
              THEN hpc' = "done" /\ hresult' = [kind |-> "threw", error |-> error]
                   /\ UNCHANGED attempt
              ELSE hpc' = "backoff" /\ UNCHANGED <<attempt, hresult>>
       /\ UNCHANGED <<coreVars, configVars, accessVars, scoundrelVars, httpServer>>

\* The 100 ms pause is over: the loop goes on with the next attempt.
BackoffOver ==
  /\ hpc = "backoff"
  /\ hpc' = "request"
  /\ attempt' = attempt + 1
  /\ UNCHANGED <<coreVars, configVars, accessVars, scoundrelVars, httpServer, hlog, hresult>>

\* The static-build server and its health check.
NextHealth ==
  \/ StartHttpServer
  \/ AssertReachable
  \/ AttemptSettles
  \/ BackoffOver

SpecHealth == Init /\ [][NextHealth]_vars

\* ------------------------------------------- AppiumDriver: allByAccessibilityId

AccessQueryOutcomes ==
  {"elements", "empty", "TimeoutError", "StaleElementReferenceError", "WebDriverError"}
NoAccessCall == [actualTimeout |-> 0, called |-> FALSE]
NoAccessResult == [kind |-> "none", text |-> ""]
AccessReturned(what) == [kind |-> "returned", text |-> what]
AccessThrew(message) ==
  [kind |-> "threw", text |-> "Couldn't get elements with accessibility id: " \o message]

\* getTimeLeft(): Math.max(actualTimeout - (Date.now() - startTime), 0)
getTimeLeft(timeout, sinceStart) ==
  IF timeout - sinceStart > 0 THEN timeout - sinceStart ELSE 0

\* Variant: an operation timeout is retried whatever time is left.
retriesLookupAlways(name, timeLeft) == name = "TimeoutError"

\* The catch block of the loop: `continue` or throw.
retriesLookup(name, timeLeft) == name = "TimeoutError" /\ timeLeft > 0

\* allByAccessibilityId(testId, args) is called.
AllByAccessibilityId ==
  \E args \in FindArgs :
    /\ apc = "idle"
    /\ fpc = "idle"
    /\ acall' = [actualTimeout |-> actualTimeout(args, _driverTimeouts), called |-> TRUE]
    /\ apc' = "loop"
    /\ aelapsed' = 0
    /\ aretried' = FALSE
    /\ aresult' = NoAccessResult
    /\ UNCHANGED <<coreVars, scoundrelVars, healthVars, configVars>>

\* Top of the loop: timeLeft is computed and the query or the wait begins.
AccessIterate ==
  /\ apc = "loop"
  /\ LET timeLeft == IF acall.actualTimeout = 0 THEN 0
                     ELSE getTimeLeft(acall.actualTimeout, aelapsed)
     IN apc' = IF timeLeft = 0 THEN "single" ELSE "wait"
  /\ UNCHANGED <<coreVars, scoundrelVars, healthVars, configVars, acall, aelapsed, aretried,
                 aresult>>

\* getElements() settles: alone, or as the condition of driver.wait.
AccessQuerySettles ==
  \E outcome \in AccessQueryOutcomes :
    LET timeLeft == getTimeLeft(acall.actualTimeout, aelapsed)
        Finish(result) == apc' = "done" /\ aresult' = result /\ UNCHANGED aretried
        Catch(name, message) ==
          IF retriesLookup(name, timeLeft)
            THEN apc' = "loop" /\ aretried' = TRUE /\ UNCHANGED aresult
            ELSE Finish(AccessThrew(message))
    IN /\ apc \in {"single", "wait"}
       /\ CASE outcome = "elements" -> Finish(AccessReturned("elements"))
            [] outcome = "empty" /\ apc = "single" -> Finish(AccessReturned("no elements"))
            [] outcome = "empty" /\ apc = "wait" ->
                 IF aelapsed < acall.actualTimeout
                   THEN UNCHANGED <<apc, aresult, aretried>>
                   ELSE Catch("TimeoutError", "Wait timed out")
            [] OTHER -> Catch(outcome, outcome)
       /\ UNCHANGED <<coreVars, scoundrelVars, healthVars, configVars, acall, aelapsed>>

\* Time passes during the call.
AccessTimePasses ==
  /\ apc \in {"loop", "single", "wait"}
  /\ aelapsed < acall.actualTimeout
  /\ aelapsed' = acall.actualTimeout
  /\ UNCHANGED <<coreVars, scoundrelVars, healthVars, configVars, apc, acall, aretried,
                 aresult>>

\* The caller has the outcome of the call: the test goes on.
AccessReturns ==
  /\ apc = "done"
  /\ apc' = "idle"
  /\ acall' = NoAccessCall
  /\ aelapsed' = 0
  /\ aretried' = FALSE
  /\ aresult' = NoAccessResult
  /\ UNCHANGED <<coreVars, scoundrelVars, healthVars, configVars>>

\* find() with a timeout and a visibility, while no accessibility-id lookup
\* is under way.
AllCall ==
  /\ apc = "idle"
  /\ FindCall
  /\ ~call'.noWait
  /\ "useBaseSelector" \notin call'.args.given

\* One blocking lookup at a time, on a page that changes.
NextLookup ==
  \/ StartBegin
  \/ DomChanges
  \/ AllCall
  \/ LookupFinds
  \/ TimePasses
  \/ LookupEmpty
  \/ LookupFails
  \/ Probe
  \/ FindReturns
  \/ AllByAccessibilityId
  \/ AccessIterate
  \/ AccessQuerySettles
  \/ AccessTimePasses
  \/ AccessReturns

SpecLookup == Init /\ [][NextLookup]_vars

\* The same where every query is answered, the loops go on and time passes.
SpecLookupFair ==
  /\ SpecLookup
  /\ WF_vars(LookupFinds \/ TimePasses \/ LookupEmpty)
  /\ WF_vars(Probe)
  /\ WF_vars(AccessIterate)
  /\ WF_vars(AccessQuerySettles)
  /\ WF_vars(AccessTimePasses)

\* ------------------------------------------- flushSendQueue called directly

\* flushSendQueue() (or onOpen(), which only calls it) is called on the
\* communicator by a caller that has not looked at the socket.
FlushSendQueue ==
  /\ LET r == flushSendQueue(_sendQueue, SocketOpen(communicatorWs), <<>>)
     IN /\ _sendQueue' = r.queue
        /\ sent' = sent \o Transmitted(r.out, communicatorWs)
        /\ raised' = r.error
        /\ flushed' = Len(r.out)
  /\ lastMessage' = NoMessage
  /\ UNCHANGED <<timeVars, findVars, actVars, waitVars, runVars, dispatchVars, helperVars,
                 extVars, _responses, _sendQueueCount, communicatorWs, lifeVars, readyState,
                 handling, promises, abandoned, assigned, enqueued, handled, received>>

NextFlush ==
  \/ StartBegin
  \/ SendCommand
  \/ OnMessageResponse
  \/ OnWebSocketConnection
  \/ ClientSocketCloses
  \/ FlushSendQueue

SpecFlush == Init /\ [][NextFlush]_vars

\* start() with the Page Helper connecting at any point of it, and commands
\* sent before, during and after and answered once transmitted.
NextConnect ==
  \/ SendCommand
  \/ OnMessageResponse
  \/ OnWebSocketConnection
  \/ ClientSocketCloses
  \/ StartBegin
  \/ StartFind
  \/ StartFinish

SpecConnect == Init /\ [][NextConnect]_vars

\* ----------------------------------------------------------------------
\* Properties of the channel
\* ----------------------------------------------------------------------
Json(envelopes) == [i \in DOMAIN envelopes |-> JSONStringify(envelopes[i])]
SentJson == [i \in DOMAIN sent |-> sent[i].json]
Count(seq, e) == Cardinality({i \in DOMAIN seq : seq[i] = e})
Responses(envelopes) == SelectSeq(envelopes, LAMBDA e : e.type = "response")
MessageTrusted(m) == "isTrusted" \in DOMAIN m /\ m.isTrusted
OnMessageStep == received' # received

\* C1: the envelopes handed to ws.send are, in order, the envelopes that
\* were enqueued: what was transmitted followed by what is still queued is
\* the enqueue log, so a flush never reorders and later sends never overtake.
C1_QueueOrder == SentJson \o Json(_sendQueue) = Json(enqueued)

\* C1 witness: at least two envelopes queued while the socket was not open
\* were flushed by one onOpen.
C1_Witness == flushed >= 2 /\ _sendQueue = <<>> /\ Len(sent) = flushed

\* C2: a response whose id has no pending entry raises "No such response"
\* and leaves the pending table and every promise as they were.
C2_UnknownResponseRaises ==
  [][(/\ OnMessageStep
      /\ ~MessageTrusted(lastMessage')
      /\ lastMessage'.type = "response"
      /\ lastMessage'.id \notin DOMAIN _responses)
     => (/\ raised' = "No such response"
         /\ _responses' = _responses
         /\ promises' = promises)]_vars

\* C2 witness: the error was raised while another response was pending.
C2_Witness ==
  /\ raised = "No such response"
  /\ DOMAIN _responses # {}
  /\ lastMessage.id \notin DOMAIN _responses

\* C3: whenever the channel is torn down (the Page Helper's socket stops
\* being open, stop() returns, or reinitialize() replaces the communicator)
\* every response pending at that moment is rejected with "channel closed".
ChannelCloses ==
  \/ /\ communicatorWs # Null
     /\ readyState[communicatorWs] = OPEN
     /\ readyState'[communicatorWs] # OPEN
  \/ pc # "stopped" /\ pc' = "stopped"
  \/ pc = "reinit_reset" /\ pc' # "reinit_reset"

C3_ClosingRejectsAllPending ==
  [][ChannelCloses =>
       \A p \in PendingPromises :
         /\ p \in DOMAIN promises'
         /\ promises'[p] = [state |-> "rejected", value |-> "channel closed"]]_vars

\* C4: the ids handed out on one communicator are 0, 1, 2, ... in order,
\* none twice, and every key of the pending table is one of them.
C4_IdsStrictlyIncreasing ==
  /\ assigned = [i \in DOMAIN assigned |-> i - 1]
  /\ _sendQueueCount = Len(assigned)
  /\ DOMAIN _responses \subseteq {assigned[i] : i \in DOMAIN assigned}

\* C4 witness: two ids assigned, one of them answered, a socket closed.
C4_Witness ==
  /\ Len(assigned) >= 2
  /\ Cardinality(DOMAIN _responses) = 1
  /\ \E c \in DOMAIN readyState : readyState[c] = CLOSED

\* C5: a promise changes only when a response with the id of its command
\* arrives, only from pending, and to the result or the error of that
\* response.
C5_ResponseMatchedById ==
  [][\A p \in DOMAIN promises \cap DOMAIN promises' :
       promises'[p] # promises[p] =>
         /\ OnMessageStep
         /\ lastMessage'.type = "response"
         /\ lastMessage'.id = assigned[p]
         /\ promises[p].state = "pending"
         /\ \/ /\ promises'[p].state = "rejected"
               /\ promises'[p].value = Get(lastMessage'.data, "error")
            \/ /\ promises'[p].state = "resolved"
               /\ promises'[p].value = Get(lastMessage'.data, "result")]_vars

\* C5 witness: two commands in flight, the second answered before the first.
C5_Witness ==
  /\ Len(promises) >= 2
  /\ promises[1].state = "pending"
  /\ promises[2].state # "pending"

\* C6: when a command handler settles, onMessage raises nothing, leaves the
\* socket alone and enqueues exactly one response with the command's id:
\* {result} if the handler returned, {error} if it threw.  No other step
\* enqueues a response.
ExpectedResponse(h) ==
  [type |-> "response", id |-> h.id,
   data |-> IF h.outcome.kind = "returned"
              THEN [result |-> h.outcome.value]
              ELSE [error |-> h.outcome.value]]

C7_SendFlushesAtMostOnce ==
  /\ SocketOpen(communicatorWs) => _sendQueue = <<>>
  /\ \A i \in DOMAIN sent : sent[i].conn \in DOMAIN readyState
  /\ Len(sent) + Len(_sendQueue) = Len(enqueued)
  /\ \A i \in DOMAIN sent : Count(SentJson, sent[i].json) <= Count(Json(enqueued), sent[i].json)

\* C7 witness: envelopes were transmitted, the socket closed, and a later
\* send is waiting in the queue.
C7_Witness ==
  /\ sent # <<>>
  /\ _sendQueue # <<>>
  /\ communicatorWs # Null
  /\ readyState[communicatorWs] = CLOSED

\* C8: an inbound message flagged isTrusted changes nothing and raises
\* nothing, whatever its type and id.
C8_TrustedIgnored ==
  [][(OnMessageStep /\ MessageTrusted(lastMessage'))
     => (/\ raised' = "none"
         /\ UNCHANGED <<_responses, _sendQueue, _sendQueueCount, handling, promises,
                        enqueued, sent, handled>>)]_vars

\* C8 witness: a trusted message of type response named a pending id and
\* the entry is still there.
C8_Witness ==
  /\ MessageTrusted(lastMessage)
  /\ lastMessage.type = "response"
  /\ lastMessage.id \in DOMAIN _responses
  /\ promises[_responses[lastMessage.id]].state = "pending"

\* ----------------------------------------------------------------------
\* Properties of find
\* ----------------------------------------------------------------------

\* A find() call (not findNoWait) has settled after its lookup ran.
FindSettled == fpc = "done" /\ call.looked /\ ~call.noWait

\* findElements threw inside all().
BackendFailed ==
  findResult.text \in {"Couldn't get elements with selector: " \o name :
                         name \in BackendFailures}

\* all() returned to find(): the lookup did not fail or time out inside
\* driver.wait and every isDisplayed() the filter asked for has settled.
AllReturned ==
  /\ FindSettled
  /\ ~BackendFailed
  /\ elements = <<>> => call.actualTimeout = 0
  /\ argVisible(call.args) \in {"true", "false"} => probed = Len(elements)

\* C9: when find settles on a selector that matched no element until its
\* timeout elapsed, it throws the not-found error ("Element couldn't be found
\* after ..."), whose message gives the time the lookup waited and the
\* selector the lookup used, whatever the timeout and useBaseSelector.
C9_NotFoundNamesElapsedAndSelector ==
  (FindSettled /\ ~BackendFailed /\ elements = <<>>) =>
    /\ findResult.kind = "ElementNotFoundError"
    /\ findResult.hundredths = toFixed2(elapsed)
    /\ findResult.selector = call.actualSelector

\* C10 (as stated): when the selector matched two or more elements, find
\* throws the ambiguous-match error, whatever the visibility filter, and
\* never returns one of the matches.
C10_AmbiguousRegardlessOfFilter ==
  (AllReturned /\ Len(elements) >= 2) =>
    /\ findResult.text = "More than 1 elements"
    /\ findResult.kind # "element"

\* C10 (amended): when two or more of the matched elements are left after
\* the visibility filter, find throws the ambiguous-match error, which names
\* how many were left and the scope-prefixed selector; find returns an
\* element only when it is the single one left after the filter.
C10_AmbiguousAfterFilter ==
  AllReturned =>
    /\ Len(activeElements) >= 2 =>
         /\ findResult.kind = "Error"
         /\ findResult.text = "More than 1 elements"
         /\ findResult.count = Len(activeElements)
         /\ findResult.selector = Scoped
    /\ findResult.kind = "element" => activeElements = <<findResult.element>>

\* Two hidden elements matched under `visible: false`: the call failed as
\* ambiguous.
C10_Witness ==
  /\ AllReturned
  /\ argVisible(call.args) = "false"
  /\ Len(activeElements) = 2
  /\ findResult.text = "More than 1 elements"
  /\ findResult.count = 2

\* ----------------------------------------------------------------------
\* Properties of click and interact
\* ----------------------------------------------------------------------

\* The interactable-state failures: not-interactable, click-intercepted,
\* stale-reference.
TransientSet == {NotInteractable, ClickIntercepted, StaleReference}
TransientFailure(o) == o.kind = "threwError" /\ o.name \in TransientSet
LastOf(seq) == seq[Len(seq)]
AllTransientBefore(n) == \A i \in 1..(n - 1) : TransientFailure(history[i])

\* C11: interact(selector, method) whose method failed with a transient
\* error on attempt k < 3 does not fail with that error but tries again, and
\* once the method succeeds after k transient failures it has returned the
\* success value after exactly k+1 lookups and k+1 calls of the method.
C11_InteractRetriesThenSucceeds ==
  (op.name = "interact" /\ op.target = "selector" /\ history # <<>>) =>
    /\ (TransientFailure(LastOf(history)) /\ Len(history) < 3) =>
         ~(ipc = "done" /\ iresult.cause = LastOf(history).name)
    /\ (LastOf(history).kind = "returned" /\ AllTransientBefore(Len(history))) =>
         /\ Len(history) <= 3
         /\ ipc = "done"
         /\ iresult.kind = "value"
         /\ iresult.value = LastOf(history).name
         /\ Len(resolved) = Len(history)
         /\ invocations = Len(history)

\* Two transient failures, then success on the third attempt.
C11_Witness ==
  /\ op.name = "interact" /\ op.target = "selector"
  /\ ipc = "done"
  /\ Len(history) = 3
  /\ TransientFailure(history[1]) /\ TransientFailure(history[2])
  /\ iresult.kind = "value"
  /\ Len(resolved) = 3
  /\ invocations = 3

\* C12: interact never makes a fourth attempt, and when the method failed
\* with a transient error on all three it has thrown an error naming the
\* selector or element, the method, the kind of the last failure and the
\* count of 3 tries.
C12_InteractStopsAfterThreeTries ==
  op.name = "interact" =>
    /\ tries <= 3
    /\ invocations <= 3
    /\ Len(resolved) <= 3
    /\ (Len(history) = 3 /\ AllTransientBefore(4)) =>
         /\ ipc = "done"
         /\ iresult.kind = "Error"
         /\ iresult.subject = (IF op.target = "selector"
                                 THEN "CSS selector " \o Selector ELSE "WebElement")
         /\ iresult.method = op.method
         /\ iresult.cause = history[3].name
         /\ iresult.tries = 3

\* Three transient failures in a row on a selector.
C12_Witness ==
  /\ op.name = "interact" /\ op.target = "selector"
  /\ ipc = "done"
  /\ Len(history) = 3
  /\ AllTransientBefore(4)
  /\ iresult.text = "failed after"
  /\ iresult.tries = 3
  /\ invocations = 3

\* C13: when the native action of click or interact failed with anything
\* outside the transient set, the operation has ended with a wrapped error
\* naming the method and the kind of that failure, without another call of
\* the action; when the lookup of the element failed, the operation has
\* ended with that failure, without a call of the action after it.
C13_OtherFailuresNotRetried ==
  /\ (history # <<>> /\ LastOf(history).kind # "returned"
        /\ ~TransientFailure(LastOf(history))) =>
       /\ ipc = "done"
       /\ iresult.kind = "Error"
       /\ iresult.text = "failed"
       /\ iresult.method = op.method
       /\ iresult.cause = LastOf(history).name
       /\ invocations = Len(history)
  /\ (resolved # <<>> /\ LastOf(resolved) # "element") =>
       /\ ipc = "done"
       /\ iresult.kind \notin {"value", "none"}
       /\ iresult.cause = LastOf(resolved)
       /\ invocations = Len(history)

\* The first call of the action failed with an error outside the set.
C13_Witness ==
  /\ ipc = "done"
  /\ Len(history) = 1
  /\ history[1] = [kind |-> "threwError", name |-> "WebDriverError"]
  /\ invocations = 1
  /\ iresult.cause = "WebDriverError"

\* C14: click(selector) whose action failed with a not-interactable,
\* click-intercepted or stale-reference error on an attempt before the third
\* does not fail with that error but looks the element up and clicks again.
C14_ClickRetriesTransientSet ==
  (op.name = "click" /\ op.target = "selector" /\ history # <<>>
     /\ TransientFailure(LastOf(history)) /\ Len(history) < 3) =>
    ~(ipc = "done" /\ iresult.cause = LastOf(history).name)

Matches == findElements(dom, wcall.actualSelector)

\* C16: waitForNoSelector completes successfully only in a poll where the
\* effective selector matches no element or every element it matches is
\* non-displayed: on a page that did not change since the poll's lookup, it
\* never completes while some matching element is displayed.
C16_WaitEndsWithNothingDisplayed ==
  (wpc = "done" /\ wresult = WaitDone /\ dom = wdom) =>
    \A i \in DOMAIN Matches : ~dom[Matches[i]].displayed

\* C17: in waitForNoSelector an element that left the page between the
\* lookup and the probe of its displayed state counts as not displayed: the
\* wait does not fail with the stale-reference error.
C17_StaleProbeIsNotAnError ==
  (wpc = "done" /\ welements # <<>> /\ welements[1] \in wstale) =>
    wresult.cause # StaleReference

\* The visibility the caller of all() asked for.
Wanted == IF "visible" \in call.args.given THEN call.args.visible ELSE "true"

\* C18: all() keeps an element it found exactly when the element's
\* displayed-state, as probed, is the one asked for (visible true: displayed,
\* visible false: not displayed), in lookup order; with visible null it keeps
\* every element it found without probing; visible not given is visible true.
C18_VisibilityFilter ==
  [][/\ (fpc = "lookup" /\ elements' # <<>>) =>
          IF Wanted = "null" THEN activeElements' = elements'
                             ELSE fpc' = "filter" /\ activeElements' = <<>>
     /\ (fpc = "filter" /\ probed' = probed + 1) =>
          LET e == elements[probed + 1]
              wanted == (Wanted = "true" /\ dom[e].displayed)
                          \/ (Wanted = "false" /\ ~dom[e].displayed)
          IN /\ Wanted \in {"true", "false"}
             /\ activeElements' = IF wanted THEN Append(activeElements, e)
                                            ELSE activeElements]_vars

\* One hidden and one displayed element matched under `visible: true`:
\* all() returned exactly the displayed one.
C18_Witness ==
  /\ AllReturned
  /\ "visible" \in call.args.given /\ call.args.visible = "true"
  /\ Len(elements) = 2
  /\ Len(activeElements) = 1
  /\ dom[activeElements[1]].displayed
  /\ \E e \in Range(elements) : dom[e].present /\ ~dom[e].displayed

\* C19: the selector all() queries is scope + selector when useBaseSelector
\* is true or not given and a scope is set, and the bare selector otherwise;
\* the not-found and ambiguous-match errors of find name that selector.
C19_EffectiveSelectorNamed ==
  FindSettled =>
    /\ call.actualSelector =
         IF /\ ("useBaseSelector" \in call.args.given => call.args.useBaseSelector)
            /\ _baseSelector \notin {Undefined, ""}
           THEN _baseSelector \o " " \o Selector
           ELSE Selector
    /\ findResult.text \in {"Element couldn't be found after", "More than 1 elements"} =>
         findResult.selector = call.actualSelector

\* C20: while time remains in the timeout of all(), no stale-element error
\* and no operation timeout of the backend ends the lookup.
C20_TransientLookupFailuresRetried ==
  (FindSettled /\ elapsed < call.actualTimeout) =>
    findResult.text \notin
      {"stale element reference",
       "Couldn't get elements with selector: StaleElementReferenceError",
       "Couldn't get elements with selector: TimeoutError"}

\* ----------------------------------------------------------------------
\* Properties of start, stop and reinitialize
\* ----------------------------------------------------------------------

\* C21: isStarted() becomes true only in a start() that has found the root
\* marker and has the Page Helper's connection, and the selector scope of
\* start() is in place only on a session that is marked started.
C21_StartedOnlyAfterMarkerAndConnection ==
  /\ [](_baseSelector = RootScope => isStarted(_started))
  /\ [][(isStarted(_started') /\ ~isStarted(_started)) =>
          (pc = "start_connected" /\ ws # Null /\ ws \in DOMAIN readyState)]_vars

C21_Witness ==
  /\ pc = "ready"
  /\ isStarted(_started)
  /\ _baseSelector = RootScope
  /\ ws # Null

\* start() is between its first await and its return or throw.
Starting == pc \in {"start_find", "start_waiting", "start_connected"}

\* C22: start() always terminates: also when the Page Helper never
\* connects, a start() in progress returns or throws in the end.
C22_StartTerminates == Starting ~> ~Starting

\* reinitialize() has reset the session and its start() has not returned.
Restarting == reinitializing /\ (pc = "constructed" \/ Starting)

C24_StoppedSessionIsInvalid ==
  pc = "stopped" =>
    /\ ~isStarted(_started)
    /\ getDriver(driver) = NoDriver
    /\ ws = Null
    /\ communicatorWs = Null

\* C25: stop() attempts every teardown step whatever became of the steps
\* before: when stop() has returned or thrown, the Page Helper's socket and
\* the listening server are closed and the driver has quit.
C25_EveryTeardownStepAttempted ==
  pc \in {"stopped", "stop_failed"} =>
    /\ ws = Null
    /\ \A c \in DOMAIN readyState : readyState[c] # OPEN
    /\ clientWss = "closed"
    /\ driver = "quit"

\* ----------------------------------------------------------------------
\* Properties of SystemTest.run
\* ----------------------------------------------------------------------

\* The steps of a run() that meets no failure, in the order of the code.
RunOrder ==
  <<"initialize sent", "initialize answered", "dismissTo sent", "dismissTo answered",
    "marker found", "callback invoked", "callback returned">>
RunSteps == SelectSeq(rlog, LAMBDA e : e # "diagnostics captured")
Did(step) == step \in Range(rlog)
Answered(n) == n \in DOMAIN rsent /\ promises[rsent[n]].state = "resolved"

C27_FailureCapturesDiagnosticsAndRethrows ==
  (rpc = "done" /\ rerror.step \in {"dismissTo", "find", "callback"}) =>
    /\ Did("diagnostics captured")
    /\ rresult = RunThrew(rerror.error)

\* ----------------------------------------------------------------------
\* Properties of the commands of the Page Helper
\* ----------------------------------------------------------------------

Ignored == command.message \in ReactNoise \/ command.verdict = "false"

InitializeCommands == {i \in DOMAIN hcommands : hcommands[i].type = "initialize"}
IsFirstInitialize(i) == \A j \in InitializeCommands : i <= j
Initialized == [result |-> "initialized"]

EventOf(type) == IF type = "visit" THEN "navigate" ELSE "dismissTo"
VisitedAs(type) == IF type = "visit" THEN "visited" ELSE "dismissed"
NavigationTypes == {"visit", "dismissTo"}
KnownHelperTypes == {"initialize", "waitForScoundrel"} \cup NavigationTypes
ErrorResponse(payload) ==
  /\ DOMAIN payload = {"error"}
  /\ settle(payload).state = "rejected"

C31_ScoundrelClientWait ==
  \A i \in DOMAIN scalls :
    LET rec == scalls[i]
    IN /\ rec.settles <= 1
       /\ rec.existing > 0 =>
            /\ rec.state = "resolved" /\ rec.value = sclients[1]
            /\ rec.settledAt = rec.called
            /\ rec.settles = 1 /\ ~rec.listener /\ ~rec.timer
       /\ rec.state = "pending" => rec.listener /\ rec.timer /\ rec.settles = 0
       /\ rec.state # "pending" => ~rec.listener /\ ~rec.timer /\ rec.settles = 1
       /\ rec.existing = 0 /\ rec.state = "resolved" =>
            /\ rec.value = sclients[1]
            /\ rec.late = 0
       /\ rec.state = "rejected" =>
            /\ rec.error = ScoundrelTimedOut
            /\ rec.value = NoClient
            /\ rec.settledAt >= rec.called + rec.timeoutMs
       /\ rec.state \in {"pending", "resolved", "rejected"}

\* One call timed out and a client attached afterwards; the other call
\* waited and got that client.
C31_Witness ==
  /\ Len(scalls) = 2
  /\ \E i, j \in DOMAIN scalls :
       /\ scalls[i].state = "rejected" /\ scalls[i].late = 1
       /\ scalls[j].existing = 0 /\ scalls[j].state = "resolved" /\ scalls[j].value = 1

AllResets == \A i \in DOMAIN hlog : hlog[i] = ConnectionReset

\* C32: the health check retries on connection reset: three consecutive
\* resets do not end it (a 200 after them completes it), and when every
\* allotted attempt was reset it fails with a host-unreachable error.
C32_HealthCheckRetriesResets ==
  /\ hlog = <<ConnectionReset, ConnectionReset, ConnectionReset>> => hresult.kind # "threw"
  /\ hresult.kind = "threw" /\ AllResets => hresult.error.code = "EHOSTUNREACH"

\* C33: reinitialize() leaves the configuration as the constructor stored it
\* (host, port, static-server host and port, debug flag, error filter, URL
\* arguments and the reset route derived from them), and it clears the
\* selector scope, which stays cleared until the restarted session is ready.
C33_ReinitializeKeepsConfiguration ==
  /\ [][config' = config]_vars
  /\ [](config.rootPath = buildRootPath(config.urlArgs))
  /\ [][pc = "reinit_reset" /\ pc' # pc => _baseSelector' = Undefined]_vars
  /\ [](Restarting => _baseSelector = Undefined)
  /\ [][Restarting /\ _baseSelector' # _baseSelector =>
          pc' = "ready" /\ isStarted(_started') /\ _baseSelector' = RootScope]_vars

\* A session constructed with URL arguments is ready again after a
\* reinitialize(), with its reset route and its scope.
C33_Witness ==
  /\ reinits > 0
  /\ pc = "ready"
  /\ ~reinitializing
  /\ config.urlArgs.given
  /\ config.rootPath = "/blank?systemTest=true&locale=da"
  /\ config.httpPort = 1985
  /\ _baseSelector = RootScope

\* C34: a response envelope with a pending id settles the promise of that id
\* once and removes the entry: rejected with the error when the response
\* carries one, resolved with the result otherwise; a second response with
\* the same id finds no entry, raises an error and settles nothing.
C34_ResponseSettlesOnce ==
  [][(/\ OnMessageStep
      /\ ~MessageTrusted(lastMessage')
      /\ lastMessage'.type = "response")
     => LET id == lastMessage'.id
            data == lastMessage'.data
        IN IF id \in DOMAIN _responses
             THEN LET p == _responses[id]
                  IN /\ raised' = "none"
                     /\ id \notin DOMAIN _responses'
                     /\ promises[p].state = "pending"
                     /\ promises'[p] = IF "error" \in DOMAIN data
                                         THEN [state |-> "rejected", value |-> data.error]
                                         ELSE [state |-> "resolved", value |-> data.result]
                     /\ \A q \in DOMAIN promises \ {p} : promises'[q] = promises[q]
             ELSE /\ raised' = "No such response"
                  /\ _responses' = _responses
                  /\ promises' = promises]_vars

\* C35: an envelope that is not flagged isTrusted and whose type is neither
\* command nor response makes onMessage raise an error; no handler is
\* invoked, no response is enqueued or sent, and the pending-response table
\* and every promise stay as they were.
C35_UnknownTypeRaises ==
  [][(/\ OnMessageStep
      /\ ~MessageTrusted(lastMessage')
      /\ lastMessage'.type \notin {"command", "response"})
     => (/\ raised' = "Unknown type"
         /\ handling' = handling
         /\ handled' = handled
         /\ enqueued' = enqueued
         /\ _sendQueue' = _sendQueue
         /\ sent' = sent
         /\ _responses' = _responses
         /\ promises' = promises)]_vars

\* The error was raised while a command was waiting for its response.
C35_Witness ==
  /\ raised = "Unknown type"
  /\ lastMessage # NoMessage
  /\ ~MessageTrusted(lastMessage)
  /\ lastMessage.type \notin {"command", "response"}
  /\ DOMAIN _responses # {}

AllLooking == fpc \in {"lookup", "filter"}
AccessLooking == apc \in {"loop", "single", "wait"}

\* C36: every blocking lookup ends: a call of all() and a call of
\* allByAccessibilityId reach their end, with elements or with an error that
\* names what was looked up, whatever the backend answers - operation
\* timeouts on every query included - and the retry loop of
\* allByAccessibilityId retries only while time is left.
C36_LookupsTerminate ==
  /\ AllLooking ~> fpc = "done"
  /\ AccessLooking ~> apc = "done"
  /\ [](fpc = "done" => findResult # NoOutcome)
  /\ [](apc = "done" => aresult.kind \in {"returned", "threw"})
  /\ [][(apc \in {"single", "wait"} /\ apc' = "loop") =>
          (getTimeLeft(acall.actualTimeout, aelapsed) > 0)]_vars
  /\ [][apc = "single" /\ apc' # apc => apc' = "done"]_vars

\* allByAccessibilityId retried an operation timeout, time ran out, and the
\* call ended with the wrapped error.
C36_Witness ==
  /\ apc = "done"
  /\ aretried
  /\ aelapsed >= acall.actualTimeout
  /\ aresult = AccessThrew("TimeoutError")


\* An envelope that was enqueued and is no longer in the outbound queue.
LeftQueue(envelope) == \A i \in DOMAIN _sendQueue : _sendQueue[i] # envelope
WasSent(envelope) == \E i \in DOMAIN sent : sent[i].json = JSONStringify(envelope)

\* C37: flushSendQueue never loses an envelope: an envelope leaves the
\* outbound queue only by being handed to ws.send, so that after a flush
\* attempted while the socket is missing or not open every envelope that
\* was queued is still queued.
C37_FlushNeverLosesEnvelope ==
  \A i \in DOMAIN enqueued : LeftQueue(enqueued[i]) => WasSent(enqueued[i])


\* C38: in every reachable state SystemTest.ws and communicator.ws are the
\* same connection or both missing, whatever connections, closes, stops and
\* reinitializations have happened.
C38_SocketsAgree == ws = communicatorWs


\* A connection event: the listening server accepted one more socket.
Connects == Len(readyState') > Len(readyState)
\* What a flush of the queue to the socket appends to the transmissions.
FlushedTo(queue, socket) ==
  [i \in 1..Len(queue) |-> [conn |-> socket, json |-> JSONStringify(queue[i])]]

\* C39: start() never misses the Page Helper's connection.  A connection
\* that arrived while the root marker was looked up makes the wait complete
\* as soon as it begins, a connection that arrives during the wait
\* completes it, and the envelopes queued before the connection are all
\* transmitted on the new socket, in order, each exactly once.
C39_StartNeverMissesConnection ==
  /\ [][(pc = "start_find" /\ ws # Null /\ pc' \notin {"start_find", "failed"})
          => (pc' = "start_connected")]_vars
  /\ [][(pc = "start_waiting" /\ Connects) => (pc' = "start_connected")]_vars
  /\ [][Connects => (/\ ws' = Len(readyState')
                     /\ communicatorWs' = ws'
                     /\ _sendQueue' = <<>>
                     /\ sent' = sent \o FlushedTo(_sendQueue, ws'))]_vars
  /\ [](\A i, j \in DOMAIN sent : (sent[i].json = sent[j].json) => (i = j))

\* The connection came during the lookup of the root marker, with a command
\* queued; the wait that began afterwards has completed without a further
\* connection event and the command went out on that socket.
C39_Witness ==
  /\ pc = "start_connected"
  /\ waitHandles
  /\ ws # Null
  /\ _sendQueue = <<>>
  /\ Len(sent) = MaxCommands
  /\ \A i \in DOMAIN sent : sent[i].conn = ws


\* C40: whenever no findNoWait call is in progress the driver timeout that
\* lookups use equals the configured timeout, whatever setTimeouts calls and
\* whatever findNoWait calls, successful or failing, came before; so no
\* lookup made outside findNoWait finds a zero timeout left behind.
C40_DriverTimeoutFollowsConfigured ==
  (fpc = "idle" \/ ~call.noWait) => (_driverTimeouts = _timeouts)
====
